---- MODULE Spec2Model ----
(***************************************************************************)
(* Model of gp_std::hash_map_128_t (include/containers/gp_hashmap.hpp):    *)
(* the 128-bit hash type, the default hash function, the sharded table     *)
(* with tombstone removal, the iterator, rehash and the lock-guarded       *)
(* entry points.                                                           *)
(*                                                                         *)
(* Unsigned 64-bit words are sequences of four 16-bit limbs, least         *)
(* significant first, so that every value keeps its C++ width.             *)
(* Domain and slot indices are 0-based as in the source; Dom and At        *)
(* translate to the 1-based sequences of TLA+.                             *)
(***************************************************************************)
EXTENDS Integers, Sequences, FiniteSets, TLC

VARIABLES
    max_domains,    \* hash_map_128_t::max_domains
    hash_table,     \* hash_map_128_t::hash_table: one sequence of pairs per domain
    domain_locks,   \* hash_map_128_t::domain_locks: one lock pair per domain
    resize_lock,    \* hash_map_128_t::resize_lock
    it_pc,          \* position of the range-for loop over the map
    it,             \* the loop's iterator (m_domain_index, m_pair_index, m_last_valid_pair)
    yielded,        \* history: what each dereference of the loop returned
    hist,           \* history: the last completed operation, its key or domain count
    last_insert,    \* history: per key, the value passed by the last insert if nothing affected the key since
    th,             \* per thread: position and locals of its guarded call
    issued,         \* history: per key, the number of atomic_insert calls issued
    ret,            \* what the last query or dereference returned
    hash_obj,       \* a _128_BIT_HASH_ object of the caller and what was last done with it
    device          \* the batch-search backend: its kernel, its work units, their shared flag

vars == <<max_domains, hash_table, domain_locks, resize_lock,
          it_pc, it, yielded, hist, last_insert, th, issued, ret, hash_obj, device>>

\* what the calls on the map leave alone
aux_vars == <<hash_obj, device>>

\* the state of the threads making guarded calls
thread_vars == <<th, issued>>
\* the state of the range-for loop
loop_vars == <<it_pc, it, yielded>>
\* what the threads of the guarded entry points leave alone
caller_vars == <<loop_vars, hist, last_insert, ret, aux_vars>>

-----------------------------------------------------------------------------
(* Bounds and inputs *)

\* resize() and the constructor take a domain count in 1..MaxDomains
MaxDomains == 3
\* appends are enabled while the table holds fewer than MaxSlots physical slots
MaxSlots == 3

Keys == {"k1", "k2", "kF", "kD"}
\* the keys of the maps an iterator is held on: with three domains each of
\* them routes to a domain of its own
CursorKeys == {"k1", "k2", "k3"}
Values == {"v1", "v2"}

Min(S) == CHOOSE x \in S : \A y \in S : x <= y

-----------------------------------------------------------------------------
(* Unsigned words *)

LimbBase == 256 * 256
LimbMax == LimbBase - 1

\* uint64_t 0xffffffffffffffff
U64Ones == <<LimbMax, LimbMax, LimbMax, LimbMax>>
U64Zero == <<0, 0, 0, 0>>

\* w + 1 in size_t arithmetic (wraps at 2^64)
U64Inc(w) ==
    [i \in 1..4 |-> IF \A j \in 1..(i - 1) : w[j] = LimbMax
                    THEN (w[i] + 1) % LimbBase
                    ELSE w[i]]

\* conversion size_t -> uint32_t: the low 32 bits
U32Of(w) == <<w[1], w[2]>>

\* w % n for a 64-bit word w and a small n > 0
U64Mod(w, n) ==
    LET r4 == w[4] % n
        r3 == (r4 * LimbBase + w[3]) % n
        r2 == (r3 * LimbBase + w[2]) % n
    IN  (r2 * LimbBase + w[1]) % n

\* a > b for 64-bit words
U64Gt(a, b) ==
    \E i \in 1..4 : a[i] > b[i] /\ \A j \in (i + 1)..4 : a[j] = b[j]

\* the word of a number below LimbBase * LimbBase
U64Of(x) == <<x % LimbBase, x \div LimbBase, 0, 0>>

\* std::hash<Key>{}(key): the scalar hash of each key of the model
\* k1 -> 1, k2 -> 2, k3 -> 3, kF -> 0xffffffff, kD -> 0x100000001
StdHash(key) ==
    CASE key = "k1" -> <<1, 0, 0, 0>>
      [] key = "k2" -> <<2, 0, 0, 0>>
      [] key = "k3" -> <<3, 0, 0, 0>>
      [] key = "kF" -> <<LimbMax, LimbMax, 0, 0>>
      [] key = "kD" -> <<1, 0, 1, 0>>

-----------------------------------------------------------------------------
(* _128_BIT_HASH_: <<_64_bit_id[0], _64_bit_id[1]>> *)

ZeroHash == <<U64Zero, U64Zero>>

\* _128_bit_type::operator[](index): 32-bit field index of the hash
Field32(h, index) ==
    IF index = 0 THEN <<h[1][1], h[1][2]>>
    ELSE IF index = 1 THEN <<h[1][3], h[1][4]>>
    ELSE IF index = 2 THEN <<h[2][1], h[2][2]>>
    ELSE <<h[2][3], h[2][4]>>

\* (uint64_t(hi) << 32) | lo
Compose64(hi, lo) == <<lo[1], lo[2], hi[1], hi[2]>>

\* a field setter that clears the other field of the same word
set_32_bit_field_clearing(h, index, value) ==
    IF index = 0 THEN <<Compose64(<<0, 0>>, value), h[2]>>
    ELSE IF index = 1 THEN <<Compose64(value, <<0, 0>>), h[2]>>
    ELSE IF index = 2 THEN <<h[1], Compose64(<<0, 0>>, value)>>
    ELSE IF index = 3 THEN <<h[1], Compose64(value, <<0, 0>>)>>
    ELSE h

set_32_bit_field(h, index, value) ==
    IF index = 0 THEN <<Compose64(Field32(h, 1), value), h[2]>>
    ELSE IF index = 1 THEN <<Compose64(value, Field32(h, 0)), h[2]>>
    ELSE IF index = 2 THEN <<h[1], Compose64(Field32(h, 3), value)>>
    ELSE IF index = 3 THEN <<h[1], Compose64(value, Field32(h, 2))>>
    ELSE h

\* encode_hash takes size_t values; set_32_bit_field receives them as uint32_t
encode_hash(h, value0, value1, value2, value3) ==
    LET h0 == set_32_bit_field(h, 0, U32Of(value0))
        h1 == set_32_bit_field(h0, 1, U32Of(value1))
        h2 == set_32_bit_field(h1, 2, U32Of(value2))
    IN  set_32_bit_field(h2, 3, U32Of(value3))

invalidate(h) == <<U64Ones, U64Ones>>

\* a test that takes one all-ones half for the sentinel
is_numeric_limit_either(h) == h[1] = U64Ones \/ h[2] = U64Ones

is_numeric_limit(h) == h[1] = U64Ones /\ h[2] = U64Ones

is_valid(h) == ~is_numeric_limit(h)

\* operator==
op_eq(a, b) == a[1] = b[1] /\ a[2] = b[2]

\* operator>: the values a call may return. When _64_bit_id[0] is equal and
\* _64_bit_id[1] is not greater, control reaches the end of the function
\* without a return statement and the caller reads an indeterminate bool.
op_gt(a, b) ==
    IF a[1] # b[1] THEN {U64Gt(a[1], b[1])}
    ELSE IF U64Gt(a[2], b[2]) THEN {TRUE}
    ELSE {TRUE, FALSE}

\* w - 1 in uint64_t arithmetic (wraps at 0)
U64Dec(w) ==
    [i \in 1..4 |-> IF \A j \in 1..(i - 1) : w[j] = 0
                    THEN (w[i] + LimbMax) % LimbBase
                    ELSE w[i]]

\* an increment that never carries into _64_bit_id[0]
op_pre_incr_no_carry(h) == <<h[1], U64Inc(h[2])>>

\* operator++(): _64_bit_id[0] += 1 when _64_bit_id[1] is all-ones, then
\* _64_bit_id[1] += 1
op_pre_incr(h) ==
    <<IF h[2] = U64Ones THEN U64Inc(h[1]) ELSE h[1], U64Inc(h[2])>>

\* operator--(): _64_bit_id[0] -= 1 when _64_bit_id[1] is zero, then
\* _64_bit_id[1] -= 1
op_pre_decr(h) ==
    <<IF h[2] = U64Zero THEN U64Dec(h[1]) ELSE h[1], U64Dec(h[2])>>

\* a constructor that stores its arguments in the order given
hash_of_pair_as_given(id_1, id_2) == <<id_1, id_2>>

\* _128_BIT_HASH_(id_1, id_2): id_1 < id_2 decides which goes to
\* _64_bit_id[0]
hash_of_pair(id_1, id_2) ==
    IF U64Gt(id_2, id_1) THEN <<id_1, id_2>> ELSE <<id_2, id_1>>

\* a hash function that encodes the scalar hash itself in all four fields
hash_scalar_plain(s) == encode_hash(ZeroHash, s, s, s, s)

\* gp_std::hash<Key>::operator() on a key whose std::hash is s
hash_scalar(s) == encode_hash(ZeroHash, U64Inc(s), s, U64Inc(s), s)

\* gp_std::hash<Key>::operator()
default_hash(key) == hash_scalar(StdHash(key))

\* the key of the runs in which HashFunc is a functor of the user
OnesKeys == {"kT"}

\* a HashFunc of the user that gives its key the all-ones value
user_hash(key) == <<U64Ones, U64Ones>>

\* the hash of every key of the model, computed once
KeyHashes ==
    [key \in Keys \cup CursorKeys \cup OnesKeys |->
        IF key \in OnesKeys THEN user_hash(key) ELSE default_hash(key)]

\* hash_map_128_t::hash_fun, the HashFunc member (gp_std::hash<Key> by default)
hash_fun(key) == KeyHashes[key]

-----------------------------------------------------------------------------
(* The table *)

Dom(table, d) == table[d + 1]
At(table, d, i) == table[d + 1][i + 1]

nullopt == <<>>
has_value(o) == Len(o) = 1
value_of(o) == o[1]

\* pair(key, value, hash_value)
pair(key, value, hash_value) ==
    [key |-> key, value |-> value, hash_value |-> hash_value]

\* hash_map_128_t(bucket_count): bucket_count empty domains, all locks free
NewTable(n) == [d \in 1..n |-> <<>>]
NewLocks(n) ==
    [d \in 1..n |-> [value_modifier_lock |-> FALSE, push_back_lock |-> FALSE]]

\* a hash_map_128_t object other than the one the variables hold
MapObject(n, table, locks, lock) ==
    [max_domains |-> n, hash_table |-> table, domain_locks |-> locks, resize_lock |-> lock]

\* hash_map_128_t(bucket_count)
Constructed(bucket_count) ==
    MapObject(bucket_count, NewTable(bucket_count), NewLocks(bucket_count), FALSE)

\* a map object that was moved from, or a local that does not exist yet
NoMap == MapObject(0, <<>>, <<>>, FALSE)

\* the domain index taken from the first word of the hash only
eval_domain_index_first_word(hash_val, n) == U64Mod(hash_val[1], n)

eval_domain_index(hash_val, n) ==
    ((U64Mod(hash_val[1], n) + U64Mod(hash_val[2], n)) % n)

\* the linear scan of search_concurrent: the first slot whose stored hash
\* equals hash_val
linear_scan(table, domain_index, hash_val) ==
    LET hits == {i \in 0..(Len(Dom(table, domain_index)) - 1) :
                    At(table, domain_index, i).hash_value = hash_val}
    IN  IF hits = {} THEN nullopt ELSE <<Min(hits)>>

\* a scan that compares the keys of the slots instead of their hashes
search_concurrent3_by_key(table, key, hash_val, domain_index) ==
    LET hits == {i \in 0..(Len(Dom(table, domain_index)) - 1) :
                    At(table, domain_index, i).key = key}
    IN  IF hits = {} THEN nullopt ELSE <<Min(hits)>>

\* a scan that takes a slot only when its key is the searched key as well
search_concurrent3_hash_and_key(table, key, hash_val, domain_index) ==
    LET hits == {i \in 0..(Len(Dom(table, domain_index)) - 1) :
                    /\ At(table, domain_index, i).hash_value = hash_val
                    /\ At(table, domain_index, i).key = key}
    IN  IF hits = {} THEN nullopt ELSE <<Min(hits)>>

\* search_concurrent(key, hash_val, domain_index); no batch-search backend is
\* registered (active_device() is nullptr), so the scan is the linear one
search_concurrent3(table, key, hash_val, domain_index) ==
    linear_scan(table, domain_index, hash_val)

\* search_concurrent(key)
search_concurrent(table, n, key) ==
    search_concurrent3(table, key, hash_fun(key), eval_domain_index(hash_fun(key), n))

\* get(key): the optional value
get(table, n, key) ==
    LET key_index == search_concurrent(table, n, key)
    IN  IF has_value(key_index)
        THEN <<At(table, eval_domain_index(hash_fun(key), n), value_of(key_index)).value>>
        ELSE nullopt

contains(table, n, key) == has_value(search_concurrent(table, n, key))

get_domain_size(table, n, domain_index) ==
    IF domain_index >= n THEN 0 ELSE Len(Dom(table, domain_index))

get_domain_count(n) == n

RECURSIVE SumSizes(_, _)
SumSizes(table, i) ==
    IF i = 0 THEN 0 ELSE SumSizes(table, i - 1) + Len(table[i])

get_total_size(table, n) == SumSizes(table, n)

size(table, n) == get_total_size(table, n)

buckets_count(n) == get_domain_count(n)

\* insert that leaves the value of an existing entry as it was
insert_table_keep_old(table, n, key, value) ==
    LET hash_val == hash_fun(key)
        domain_index == eval_domain_index(hash_val, n)
    IN  IF has_value(linear_scan(table, domain_index, hash_val))
        THEN table
        ELSE [table EXCEPT ![domain_index + 1] = Append(@, pair(key, value, hash_val))]

\* insert that appends without looking for an existing entry
insert_table_always_append(table, n, key, value) ==
    [table EXCEPT ![eval_domain_index(hash_fun(key), n) + 1] =
        Append(@, pair(key, value, hash_fun(key)))]

\* insert(const Key&, const Value&) on the table
insert_table(table, n, key, value) ==
    LET hash_val == hash_fun(key)
        domain_index == eval_domain_index(hash_val, n)
        key_index == search_concurrent3(table, key, hash_val, domain_index)
    IN  IF has_value(key_index)
        THEN [table EXCEPT ![domain_index + 1][value_of(key_index) + 1].value = value]
        ELSE [table EXCEPT ![domain_index + 1] = Append(@, pair(key, value, hash_val))]

\* remove that erases the slot from the domain
remove_table_erase(table, n, key) ==
    LET hash_val == hash_fun(key)
        domain_index == eval_domain_index(hash_val, n)
        key_index == linear_scan(table, domain_index, hash_val)
        dom == Dom(table, domain_index)
    IN  IF has_value(key_index)
        THEN [table EXCEPT ![domain_index + 1] =
                 SubSeq(dom, 1, value_of(key_index)) \o
                 SubSeq(dom, value_of(key_index) + 2, Len(dom))]
        ELSE table

\* remove that tombstones slot 0 of the domain when the key is not found
remove_table_first_slot(table, n, key) ==
    LET hash_val == hash_fun(key)
        domain_index == eval_domain_index(hash_val, n)
        key_index == linear_scan(table, domain_index, hash_val)
        hit == IF has_value(key_index) THEN value_of(key_index) ELSE 0
    IN  IF Len(Dom(table, domain_index)) > 0
        THEN [table EXCEPT ![domain_index + 1][hit + 1].hash_value = invalidate(@)]
        ELSE table

\* remove(key) on the table
remove_table(table, n, key) ==
    LET hash_val == hash_fun(key)
        domain_index == eval_domain_index(hash_val, n)
        key_index == search_concurrent3(table, key, hash_val, domain_index)
    IN  IF has_value(key_index)
        THEN [table EXCEPT ![domain_index + 1][value_of(key_index) + 1].hash_value =
                               invalidate(@)]
        ELSE table

\* no_check_insert that appends to domain 0 whatever the hash
no_check_insert_first(table, n, key, value) ==
    [table EXCEPT ![1] = Append(@, pair(key, value, hash_fun(key)))]

\* no_check_insert(key, value)
no_check_insert(table, n, key, value) ==
    LET hash_val == hash_fun(key)
        domain_index == eval_domain_index(hash_val, n)
    IN  [table EXCEPT ![domain_index + 1] = Append(@, pair(key, value, hash_val))]

-----------------------------------------------------------------------------
(* hash_map_128_t::iterator *)

\* 0xffffffff, the index pair of the end sentinel. Only equality with the
\* sentinel is ever evaluated on it, so it is kept as the bit pattern
\* (uint32_t)-1.
MAX_INDEX == -1

\* values of m_last_valid_pair: nullptr, the address of a slot, or the
\* indeterminate value of a member no constructor initialised
NullPtr == [k |-> "null", d |-> 0, p |-> 0]
Indeterminate == [k |-> "indeterminate", d |-> 0, p |-> 0]
SlotPtr(d, p) == [k |-> "slot", d |-> d, p |-> p]

is_end(i) == i.d = MAX_INDEX /\ i.p = MAX_INDEX

\* iterator(hashmap) that stops at the last domain with size() > 0
iterator_first_highest(table, n) ==
    LET nonempty == {i \in 0..(n - 1) : Len(Dom(table, i)) > 0}
    IN  [d |-> IF nonempty = {} THEN 0 ELSE CHOOSE x \in nonempty : \A y \in nonempty : y <= x,
         p |-> 0, last |-> Indeterminate]

\* iterator(hashmap): the first domain with size() > 0, else (0, 0);
\* m_last_valid_pair is left uninitialised
iterator_first(table, n) ==
    LET nonempty == {i \in 0..(n - 1) : Len(Dom(table, i)) > 0}
    IN  [d |-> IF nonempty = {} THEN 0 ELSE Min(nonempty), p |-> 0,
         last |-> Indeterminate]

\* iterator(hashmap, domain_index, pair_index)
iterator_at(d, p) == [d |-> d, p |-> p, last |-> NullPtr]

end == iterator_at(MAX_INDEX, MAX_INDEX)

begin(table, n) ==
    IF get_total_size(table, n) # 0 THEN iterator_first(table, n) ELSE end

\* find(key)
find(table, n, key) ==
    LET hash_val == hash_fun(key)
        domain_index == eval_domain_index(hash_val, n)
        key_index == search_concurrent3(table, key, hash_val, domain_index)
    IN  IF has_value(key_index)
        THEN iterator_at(domain_index, value_of(key_index))
        ELSE end

\* operator!=
iter_neq(a, b) == a.d # b.d \/ a.p # b.p

\* forward that gives up at the end of the current domain
forward_no_next_domain(table, n, i) ==
    IF is_end(i) THEN i
    ELSE IF Len(Dom(table, i.d)) = 0 \/ i.p < Len(Dom(table, i.d)) - 1
    THEN [i EXCEPT !.p = i.p + 1]
    ELSE [i EXCEPT !.d = MAX_INDEX, !.p = MAX_INDEX]

\* forward that leaves the current domain at once
forward_next_domain_only(table, n, i) ==
    IF is_end(i) THEN i
    ELSE LET later == {j \in (i.d + 1)..(n - 1) : Len(Dom(table, j)) > 0}
         IN  IF later = {}
             THEN [i EXCEPT !.d = MAX_INDEX, !.p = MAX_INDEX]
             ELSE [i EXCEPT !.d = Min(later), !.p = 0]

\* forward(); size() - 1 is unsigned, so an empty domain passes the first test
forward(table, n, i) ==
    IF is_end(i) THEN i
    ELSE IF Len(Dom(table, i.d)) = 0 \/ i.p < Len(Dom(table, i.d)) - 1
    THEN [i EXCEPT !.p = i.p + 1]
    ELSE LET later == {j \in (i.d + 1)..(n - 1) : Len(Dom(table, j)) > 0}
         IN  IF later = {}
             THEN [i EXCEPT !.d = MAX_INDEX, !.p = MAX_INDEX]
             ELSE [i EXCEPT !.d = Min(later), !.p = 0]

\* operator++
op_incr(table, n, i) == IF is_end(i) THEN i ELSE forward(table, n, i)

\* the while loop of operator*: m_last_valid_pair points at the current slot
RECURSIVE star_loop(_, _, _)
star_loop(table, n, i) ==
    IF is_valid(At(table, i.last.d, i.last.p).hash_value) THEN i
    ELSE LET f == forward(table, n, i)
         IN  IF is_end(f) THEN f
             ELSE star_loop(table, n, [f EXCEPT !.last = SlotPtr(f.d, f.p)])

\* operator* on an iterator that is not at the end sentinel: the iterator
\* afterwards; the pair returned is the one m_last_valid_pair points at
op_star(table, n, i) ==
    star_loop(table, n, [i EXCEPT !.last = SlotPtr(i.d, i.p)])

-----------------------------------------------------------------------------
(* rehash *)

\* the loop of rehash without the is_valid() test
RECURSIVE rehash_loop_all(_, _, _, _, _)
rehash_loop_all(table, n, i, new_table, new_n) ==
    IF ~iter_neq(i, end) THEN new_table
    ELSE LET i1 == op_star(table, n, i)
             iter == At(table, i1.last.d, i1.last.p)
         IN  rehash_loop_all(table, n, op_incr(table, n, i1),
                             no_check_insert(new_table, new_n, iter.key, iter.value), new_n)

\* for (pair& iter : *this) if (iter.is_valid()) new_hash_map.no_check_insert(move(iter))
RECURSIVE rehash_loop(_, _, _, _, _)
rehash_loop(table, n, i, new_table, new_n) ==
    IF ~iter_neq(i, end) THEN new_table
    ELSE LET i1 == op_star(table, n, i)
             iter == At(table, i1.last.d, i1.last.p)
             t1 == IF is_valid(iter.hash_value)
                   THEN no_check_insert(new_table, new_n, iter.key, iter.value)
                   ELSE new_table
         IN  rehash_loop(table, n, op_incr(table, n, i1), t1, new_n)

\* the hash_table of new_hash_map when rehash reaches the move assignment
rehash_table(table, n, new_domain_count) ==
    rehash_loop(table, n, begin(table, n), NewTable(new_domain_count), new_domain_count)

-----------------------------------------------------------------------------
(* History *)

NoValue == "none"

\* hit: the operation's scan found an entry with the key's hash
Hist(op, key, n, hit) == [op |-> op, key |-> key, n |-> n, hit |-> hit]

SameHash(a, b) == hash_fun(a) = hash_fun(b)

\* what a call returned: the optional of get and atomic_get, the boolean of
\* contains, the iterator of find, begin and end, the pair of operator*
Ret(op, key, opt, flag, iter, e) ==
    [op |-> op, key |-> key, opt |-> opt, flag |-> flag, iter |-> iter, e |-> e]

NoPair == pair(NoValue, NoValue, ZeroHash)
NoRet == Ret(NoValue, NoValue, nullopt, FALSE, end, NoPair)

\* a _128_BIT_HASH_ object h, the last operation applied to it with its
\* arguments, what the operation returned, and the nesting depth of a call
\* that has not returned
HashOp(h, op, args, result, frames) ==
    [h |-> h, op |-> op, args |-> args, result |-> result, frames |-> frames]

\* _128_BIT_HASH_(): both words zero, nothing done with it yet
NoHashOp == HashOp(ZeroHash, NoValue, <<>>, NoValue, 0)

\* the scalar key of no search: the keys searched are positive
NoScalar == 0

\* the batch-search backend and the search that uses it: whether a device
\* is registered, its number of work units, where the searching call is, the
\* members of the kernel, the shared flag and the work units
DeviceState(registered, wave_count, pc) ==
    [registered |-> registered, wave_count |-> wave_count, pc |-> pc,
     key |-> NoScalar, hash_val |-> <<>>, domain_index |-> 0,
     key_index |-> nullopt, finished |-> FALSE, units |-> <<>>,
     delegated |-> FALSE]

\* no backend is registered and no search is in progress
NoDevice == DeviceState(FALSE, 0, "idle")

\* threads of the guarded entry points
Threads == {"t1", "t2"}
IdleThread ==
    [pc |-> "idle", op |-> NoValue, key |-> NoValue, value |-> NoValue,
     hash_val |-> <<>>, domain_index |-> 0, i |-> 0, key_index |-> <<>>, pos |-> 0,
     new_domain_count |-> 0, new_hash_map |-> NoMap, iter |-> end,
     calls |-> 0]

-----------------------------------------------------------------------------------------------------------------------------------------------------
(* Single-threaded use: insert, remove, resize and a range-for loop *)

Init ==
    /\ max_domains \in 1..MaxDomains
    /\ hash_table = NewTable(max_domains)
    /\ domain_locks = NewLocks(max_domains)
    /\ resize_lock = FALSE
    /\ it_pc = "idle"
    /\ it = end
    /\ yielded = <<>>
    /\ hist = Hist("init", NoValue, 0, FALSE)
    /\ last_insert = [k \in Keys |-> NoValue]
    /\ th = [t \in Threads |-> IdleThread]
    /\ issued = [k \in Keys |-> 0]
    /\ ret = NoRet
    /\ hash_obj = NoHashOp
    /\ device = NoDevice

\* insert(key, value)
Insert(key, value) ==
    /\ it_pc = "idle"
    /\ \/ contains(hash_table, max_domains, key)
       \/ get_total_size(hash_table, max_domains) < MaxSlots
    /\ hash_table' = insert_table(hash_table, max_domains, key, value)
    /\ UNCHANGED <<max_domains, domain_locks, resize_lock, loop_vars, thread_vars>>

\* remove(key)
Remove(key) ==
    /\ it_pc = "idle"
    /\ hash_table' = remove_table(hash_table, max_domains, key)
    /\ UNCHANGED <<max_domains, domain_locks, resize_lock, loop_vars, thread_vars>>

\* resize(new_domain_count): rehash under resize_lock, then the move
\* assignment from new_hash_map; resize_lock is free again on return
Resize(new_domain_count) ==
    /\ it_pc = "idle"
    /\ resize_lock = FALSE
    /\ hash_table' = rehash_table(hash_table, max_domains, new_domain_count)
    /\ max_domains' = new_domain_count
    /\ domain_locks' = NewLocks(new_domain_count)
    /\ UNCHANGED <<resize_lock, loop_vars, thread_vars>>

\* the operations with the history of the last call recorded
DoInsert(key, value) ==
    /\ Insert(key, value)
    /\ hist' = Hist("insert", key, 0, contains(hash_table, max_domains, key))
    /\ last_insert' = [k \in Keys |->
                          IF k = key THEN value
                          ELSE IF SameHash(k, key) THEN NoValue
                          ELSE last_insert[k]]

DoRemove(key) ==
    /\ Remove(key)
    /\ hist' = Hist("remove", key, 0, contains(hash_table, max_domains, key))
    /\ last_insert' = [k \in Keys |->
                          IF SameHash(k, key) THEN NoValue ELSE last_insert[k]]

DoResize(new_domain_count) ==
    /\ Resize(new_domain_count)
    /\ hist' = Hist("resize", NoValue, new_domain_count, FALSE)
    /\ UNCHANGED last_insert

Next ==
    \/ \E key \in Keys, value \in Values : DoInsert(key, value) /\ UNCHANGED <<ret, aux_vars>>
    \/ \E key \in Keys : DoRemove(key) /\ UNCHANGED <<ret, aux_vars>>
    \/ \E n \in 1..MaxDomains : DoResize(n) /\ UNCHANGED <<ret, aux_vars>>

Spec == Init /\ [][Next]_vars

-----------------------------------------------------------------------------
(* A range-for loop over a map built by insert, remove and resize *)

\* for (auto& e : map): it = begin(), and the first test it != end()
IterBegin ==
    /\ it_pc = "idle"
    /\ it' = begin(hash_table, max_domains)
    /\ it_pc' = IF iter_neq(it', end) THEN "deref" ELSE "done"
    /\ yielded' = <<>>
    /\ UNCHANGED <<max_domains, hash_table, domain_locks, resize_lock, thread_vars>>

\* e = *it
IterDeref ==
    /\ it_pc = "deref"
    /\ it' = op_star(hash_table, max_domains, it)
    /\ yielded' = Append(yielded, [d |-> it'.last.d, p |-> it'.last.p,
                                   e |-> At(hash_table, it'.last.d, it'.last.p)])
    /\ it_pc' = "incr"
    /\ UNCHANGED <<max_domains, hash_table, domain_locks, resize_lock, thread_vars>>

\* ++it, and the test it != end()
IterIncr ==
    /\ it_pc = "incr"
    /\ it' = op_incr(hash_table, max_domains, it)
    /\ it_pc' = IF iter_neq(it', end) THEN "deref" ELSE "done"
    /\ UNCHANGED <<max_domains, hash_table, domain_locks, resize_lock, yielded, thread_vars>>

\* the loop is left
IterEnd ==
    /\ it_pc = "done"
    /\ it_pc' = "idle"
    /\ it' = end
    /\ yielded' = <<>>
    /\ UNCHANGED <<max_domains, hash_table, domain_locks, resize_lock, thread_vars>>

IterNext ==
    \/ \E key \in Keys, value \in Values : Insert(key, value) /\ UNCHANGED <<hist, last_insert, ret, aux_vars>>
    \/ \E key \in Keys : Remove(key) /\ UNCHANGED <<hist, last_insert, ret, aux_vars>>
    \/ \E n \in 1..MaxDomains : Resize(n) /\ UNCHANGED <<hist, last_insert, ret, aux_vars>>
    \/ IterBegin /\ UNCHANGED <<hist, last_insert, ret, aux_vars>>
    \/ IterDeref /\ UNCHANGED <<hist, last_insert, ret, aux_vars>>
    \/ IterIncr /\ UNCHANGED <<hist, last_insert, ret, aux_vars>>
    \/ IterEnd /\ UNCHANGED <<hist, last_insert, ret, aux_vars>>

IterSpec == Init /\ [][IterNext]_vars

-----------------------------------------------------------------------------
(* Guarded entry points: threads calling atomic_insert and atomic_get *)

\* at most MaxCalls atomic_insert calls are issued
MaxCalls == 3

RECURSIVE SumOver(_, _)
SumOver(f, S) ==
    IF S = {} THEN 0
    ELSE LET x == CHOOSE y \in S : TRUE IN f[x] + SumOver(f, S \ {x})

\* spinlock::lock(): returns once the lock was free and is now held
spin_lock(locks, d, which) ==
    /\ ~locks[d + 1][which]
    /\ domain_locks' = [locks EXCEPT ![d + 1][which] = TRUE]

\* spinlock::unlock()
spin_unlock(locks, d, which) ==
    domain_locks' = [locks EXCEPT ![d + 1][which] = FALSE]

\* the locals of a call that has computed hash_val and domain_index and
\* enters search_concurrent
CallLocals(op, key, value) ==
    [pc |-> "scan", op |-> op, key |-> key, value |-> value,
     hash_val |-> hash_fun(key),
     domain_index |-> eval_domain_index(hash_fun(key), max_domains),
     i |-> 0, key_index |-> nullopt, pos |-> 0,
     new_domain_count |-> 0, new_hash_map |-> NoMap, iter |-> end,
     calls |-> 0]

\* the value each thread passes to atomic_insert
ThreadValue(t) == IF t = "t1" THEN "v1" ELSE "v2"

\* atomic_insert(key, value) is called
AtomicInsertCall(t, key, value) ==
    /\ th[t].pc = "idle"
    /\ SumOver(issued, Keys) < MaxCalls
    /\ th' = [th EXCEPT ![t] = CallLocals("insert", key, value)]
    /\ issued' = [issued EXCEPT ![key] = @ + 1]
    /\ UNCHANGED <<max_domains, hash_table, domain_locks, resize_lock>>

\* atomic_get(key) is called
AtomicGetCall(t, key) ==
    /\ th[t].pc = "idle"
    /\ th' = [th EXCEPT ![t] = CallLocals("get", key, NoValue)]
    /\ UNCHANGED <<max_domains, hash_table, domain_locks, resize_lock, issued>>

\* where a call continues when search_concurrent has returned key_index:
\* both calls lock the value when the key was found; atomic_insert appends
\* and atomic_get returns nullopt when it was not
after_search(op, key_index) ==
    IF has_value(key_index) THEN "lock_value"
    ELSE IF op = "insert" THEN "lock_push"
    ELSE "idle"

\* one turn of the loop of search_concurrent, which takes no lock: the test
\* i < size() and the comparison of the hash of slot i
ScanStep(t) ==
    /\ th[t].pc = "scan"
    /\ LET me == th[t]
           dom == Dom(hash_table, me.domain_index)
       IN  IF me.i < Len(dom)
           THEN IF dom[me.i + 1].hash_value = me.hash_val
                THEN th' = [th EXCEPT ![t].key_index = <<me.i>>,
                                      ![t].pc = after_search(me.op, <<me.i>>)]
                ELSE th' = [th EXCEPT ![t].i = me.i + 1]
           ELSE IF after_search(me.op, nullopt) = "idle"
                THEN th' = [th EXCEPT ![t] = IdleThread]
                ELSE th' = [th EXCEPT ![t].pc = after_search(me.op, nullopt)]
    /\ UNCHANGED <<max_domains, hash_table, domain_locks, resize_lock, issued>>

\* the value lock taken without waiting for it to be free
lock_value_no_wait(t) ==
    domain_locks' = [domain_locks EXCEPT ![th[t].domain_index + 1].value_modifier_lock = TRUE]

\* the value lock of domain 0 taken whatever the domain of the key
lock_value_domain_zero(t) ==
    spin_lock(domain_locks, 0, "value_modifier_lock")

\* the value lock taken only when no resize is in progress
lock_value_unless_resizing(t) ==
    /\ ~resize_lock
    /\ spin_lock(domain_locks, th[t].domain_index, "value_modifier_lock")

\* scoped_lock lock(domain_locks[domain_index].value_modifier_lock)
lock_value(t) ==
    spin_lock(domain_locks, th[t].domain_index, "value_modifier_lock")

LockValue(t) ==
    /\ th[t].pc = "lock_value"
    /\ lock_value(t)
    /\ th' = [th EXCEPT ![t].pc = IF th[t].op = "insert" THEN "assign" ELSE "bind"]
    /\ UNCHANGED <<max_domains, hash_table, resize_lock, issued>>

\* atomic_insert: hash_table[domain_index][key_index.value()].value = value
AssignValue(t) ==
    /\ th[t].pc = "assign"
    /\ hash_table' = [hash_table EXCEPT
                         ![th[t].domain_index + 1][value_of(th[t].key_index) + 1].value =
                             th[t].value]
    /\ th' = [th EXCEPT ![t].pc = "unlock_value"]
    /\ UNCHANGED <<max_domains, domain_locks, resize_lock, issued>>

\* atomic_get: Value& value = hash_table[...][key_index.value()].value
BindValue(t) ==
    /\ th[t].pc = "bind"
    /\ th' = [th EXCEPT ![t].pc = "unlock_value"]
    /\ UNCHANGED <<max_domains, hash_table, domain_locks, resize_lock, issued>>

\* a return that leaves value_modifier_lock held
UnlockValueKeepsLock(t) ==
    /\ th[t].pc = "unlock_value"
    /\ th' = [th EXCEPT ![t] = IdleThread]
    /\ UNCHANGED <<max_domains, hash_table, domain_locks, resize_lock, issued>>

\* return: ~scoped_lock releases value_modifier_lock
UnlockValue(t) ==
    /\ th[t].pc = "unlock_value"
    /\ spin_unlock(domain_locks, th[t].domain_index, "value_modifier_lock")
    /\ th' = [th EXCEPT ![t] = IdleThread]
    /\ UNCHANGED <<max_domains, hash_table, resize_lock, issued>>

\* the append lock taken without waiting for it to be free
lock_push_back_no_wait(t) ==
    domain_locks' = [domain_locks EXCEPT ![th[t].domain_index + 1].push_back_lock = TRUE]

\* the append lock taken only once the value lock of the domain is free too
lock_push_back_after_value(t) ==
    /\ ~domain_locks[th[t].domain_index + 1].value_modifier_lock
    /\ spin_lock(domain_locks, th[t].domain_index, "push_back_lock")

\* scoped_lock lock(domain_locks[domain_index].push_back_lock)
lock_push_back(t) ==
    spin_lock(domain_locks, th[t].domain_index, "push_back_lock")

LockPushBack(t) ==
    /\ th[t].pc = "lock_push"
    /\ lock_push_back(t)
    /\ th' = [th EXCEPT ![t].pc = "push_read"]
    /\ UNCHANGED <<max_domains, hash_table, resize_lock, issued>>

\* push_back, first half: the end of the domain's sequence is read
PushBackRead(t) ==
    /\ th[t].pc = "push_read"
    /\ th' = [th EXCEPT ![t].pos = Len(Dom(hash_table, th[t].domain_index)),
                        ![t].pc = "push_write"]
    /\ UNCHANGED <<max_domains, hash_table, domain_locks, resize_lock, issued>>

\* push_back, second half: the pair is constructed at the end read before,
\* and the end moves one past it
PushBackWrite(t) ==
    /\ th[t].pc = "push_write"
    /\ hash_table' = [hash_table EXCEPT ![th[t].domain_index + 1] =
                         Append(SubSeq(@, 1, th[t].pos),
                                pair(th[t].key, th[t].value, th[t].hash_val))]
    /\ th' = [th EXCEPT ![t].pc = "unlock_push"]
    /\ UNCHANGED <<max_domains, domain_locks, resize_lock, issued>>

\* return hash_table[domain_index].back(): ~scoped_lock releases push_back_lock
UnlockPushBack(t) ==
    /\ th[t].pc = "unlock_push"
    /\ spin_unlock(domain_locks, th[t].domain_index, "push_back_lock")
    /\ th' = [th EXCEPT ![t] = IdleThread]
    /\ UNCHANGED <<max_domains, hash_table, resize_lock, issued>>

AtomicNext ==
    \/ \E t \in Threads, key \in Keys :
          AtomicInsertCall(t, key, ThreadValue(t)) /\ UNCHANGED caller_vars
    \/ \E t \in Threads, key \in Keys : AtomicGetCall(t, key) /\ UNCHANGED caller_vars
    \/ \E t \in Threads : ScanStep(t) /\ UNCHANGED caller_vars
    \/ \E t \in Threads : LockValue(t) /\ UNCHANGED caller_vars
    \/ \E t \in Threads : AssignValue(t) /\ UNCHANGED caller_vars
    \/ \E t \in Threads : BindValue(t) /\ UNCHANGED caller_vars
    \/ \E t \in Threads : UnlockValue(t) /\ UNCHANGED caller_vars
    \/ \E t \in Threads : LockPushBack(t) /\ UNCHANGED caller_vars
    \/ \E t \in Threads : PushBackRead(t) /\ UNCHANGED caller_vars
    \/ \E t \in Threads : PushBackWrite(t) /\ UNCHANGED caller_vars
    \/ \E t \in Threads : UnlockPushBack(t) /\ UNCHANGED caller_vars

AtomicSpec == Init /\ [][AtomicNext]_vars

-----------------------------------------------------------------------------
(* The calls of a single thread: queries between mutations *)

\* get(key)
Get(key) ==
    /\ ret' = Ret("get", key, get(hash_table, max_domains, key), FALSE, end, NoPair)
    /\ UNCHANGED <<max_domains, hash_table, domain_locks, resize_lock>>

\* atomic_get(key) run to its return: value_modifier_lock of the key's domain
\* is taken and released when the key was found
AtomicGet(key) ==
    LET hash_val == hash_fun(key)
        domain_index == eval_domain_index(hash_val, max_domains)
        key_index == search_concurrent3(hash_table, key, hash_val, domain_index)
    IN  /\ has_value(key_index) => ~domain_locks[domain_index + 1].value_modifier_lock
        /\ ret' = Ret("atomic_get", key,
                      IF has_value(key_index)
                      THEN <<At(hash_table, eval_domain_index(hash_fun(key), max_domains),
                                value_of(key_index)).value>>
                      ELSE nullopt,
                      FALSE, end, NoPair)
        /\ UNCHANGED <<max_domains, hash_table, domain_locks, resize_lock>>

\* atomic_insert(key, value) run to its return: the lock of the path taken is
\* acquired and released again
AtomicInsert(key, value) ==
    LET hash_val == hash_fun(key)
        domain_index == eval_domain_index(hash_val, max_domains)
        key_index == search_concurrent3(hash_table, key, hash_val, domain_index)
    IN  /\ it_pc = "idle"
        /\ has_value(key_index) \/ get_total_size(hash_table, max_domains) < MaxSlots
        /\ IF has_value(key_index)
           THEN /\ ~domain_locks[domain_index + 1].value_modifier_lock
                /\ hash_table' = [hash_table EXCEPT
                                     ![domain_index + 1][value_of(key_index) + 1].value = value]
           ELSE /\ ~domain_locks[domain_index + 1].push_back_lock
                /\ hash_table' = [hash_table EXCEPT ![domain_index + 1] =
                                     Append(@, pair(key, value, hash_val))]
        /\ UNCHANGED <<max_domains, domain_locks, resize_lock, loop_vars, thread_vars>>

\* contains(key)
Contains(key) ==
    /\ ret' = Ret("contains", key, nullopt, contains(hash_table, max_domains, key),
                  end, NoPair)
    /\ UNCHANGED <<max_domains, hash_table, domain_locks, resize_lock>>

\* find(key)
Find(key) ==
    /\ ret' = Ret("find", key, nullopt, FALSE, find(hash_table, max_domains, key), NoPair)
    /\ UNCHANGED <<max_domains, hash_table, domain_locks, resize_lock>>

\* the caller is done with what the last call returned
Discard ==
    /\ ret # NoRet
    /\ ret' = NoRet
    /\ UNCHANGED <<max_domains, hash_table, domain_locks, resize_lock>>

\* the single thread makes its next call once it is done with the result of
\* the last one
QueryNext ==
    \/ \E key \in Keys, value \in Values :
          ret = NoRet /\ Insert(key, value) /\ UNCHANGED <<hist, last_insert, ret, aux_vars>>
    \/ \E key \in Keys, value \in Values :
          ret = NoRet /\ AtomicInsert(key, value) /\ UNCHANGED <<hist, last_insert, ret, aux_vars>>
    \/ \E key \in Keys :
          ret = NoRet /\ Remove(key) /\ UNCHANGED <<hist, last_insert, ret, aux_vars>>
    \/ \E n \in 1..MaxDomains :
          ret = NoRet /\ Resize(n) /\ UNCHANGED <<hist, last_insert, ret, aux_vars>>
    \/ \E key \in Keys :
          ret = NoRet /\ Get(key) /\ UNCHANGED <<loop_vars, thread_vars, hist, last_insert, aux_vars>>
    \/ \E key \in Keys :
          ret = NoRet /\ AtomicGet(key) /\ UNCHANGED <<loop_vars, thread_vars, hist, last_insert, aux_vars>>
    \/ \E key \in Keys :
          ret = NoRet /\ Contains(key) /\ UNCHANGED <<loop_vars, thread_vars, hist, last_insert, aux_vars>>
    \/ \E key \in Keys :
          ret = NoRet /\ Find(key) /\ UNCHANGED <<loop_vars, thread_vars, hist, last_insert, aux_vars>>
    \/ Discard /\ UNCHANGED <<loop_vars, thread_vars, hist, last_insert, aux_vars>>

QuerySpec == Init /\ [][QueryNext]_vars

-----------------------------------------------------------------------------
(* An iterator held by the caller: begin, end, find, operator++, operator* *)

\* what a read through an indeterminate pointer may return
GarbagePair == pair("garbage", "garbage", ZeroHash)

\* it = begin()
CursorBegin ==
    /\ it_pc = "idle"
    /\ it' = begin(hash_table, max_domains)
    /\ it_pc' = "held"
    /\ ret' = Ret("begin", NoValue, nullopt, FALSE, it', NoPair)
    /\ yielded' = <<>>
    /\ UNCHANGED <<max_domains, hash_table, domain_locks, resize_lock, thread_vars>>

\* it = end()
CursorEnd ==
    /\ it_pc = "idle"
    /\ it' = end
    /\ it_pc' = "held"
    /\ ret' = Ret("end", NoValue, nullopt, FALSE, it', NoPair)
    /\ yielded' = <<>>
    /\ UNCHANGED <<max_domains, hash_table, domain_locks, resize_lock, thread_vars>>

\* it = find(key)
CursorFind(key) ==
    /\ it_pc = "idle"
    /\ it' = find(hash_table, max_domains, key)
    /\ it_pc' = "held"
    /\ ret' = Ret("find", key, nullopt, FALSE, it', NoPair)
    /\ yielded' = <<>>
    /\ UNCHANGED <<max_domains, hash_table, domain_locks, resize_lock, thread_vars>>

\* ++it
CursorIncr ==
    /\ it_pc = "held"
    /\ it' = op_incr(hash_table, max_domains, it)
    /\ ret' = Ret("incr", NoValue, nullopt, FALSE, it, NoPair)
    /\ UNCHANGED <<max_domains, hash_table, domain_locks, resize_lock, it_pc, yielded,
                   thread_vars>>

\* *it on an iterator at the end sentinel: the pair m_last_valid_pair points
\* at when it is not null, else the throw out of the noexcept operator*, which
\* ends the program. An m_last_valid_pair no constructor and no operator* has
\* written is indeterminate: it may compare equal to null or be returned
\* through.
CursorDerefEnd ==
    /\ it_pc = "held"
    /\ is_end(it)
    /\ \/ /\ it.last = NullPtr \/ it.last = Indeterminate
          /\ ret' = Ret("deref", NoValue, nullopt, TRUE, it, NoPair)
          /\ it_pc' = "terminated"
       \/ /\ it.last.k = "slot"
          /\ ret' = Ret("deref", NoValue, nullopt, FALSE, it,
                        At(hash_table, it.last.d, it.last.p))
          /\ it_pc' = it_pc
       \/ /\ it.last = Indeterminate
          /\ ret' = Ret("deref", NoValue, nullopt, FALSE, it, GarbagePair)
          /\ it_pc' = it_pc
    /\ UNCHANGED <<max_domains, hash_table, domain_locks, resize_lock, it, yielded,
                   thread_vars>>

\* *it on an iterator that is not at the end sentinel
CursorDeref ==
    /\ it_pc = "held"
    /\ ~is_end(it)
    /\ it' = op_star(hash_table, max_domains, it)
    /\ ret' = Ret("deref", NoValue, nullopt, FALSE, it,
                  At(hash_table, it'.last.d, it'.last.p))
    /\ UNCHANGED <<max_domains, hash_table, domain_locks, resize_lock, it_pc, yielded,
                   thread_vars>>

\* the iterator goes out of scope
CursorDrop ==
    /\ it_pc = "held"
    /\ it_pc' = "idle"
    /\ it' = end
    /\ ret' = NoRet
    /\ UNCHANGED <<max_domains, hash_table, domain_locks, resize_lock, yielded, thread_vars>>

CursorNext ==
    \/ \E key \in CursorKeys, value \in Values : Insert(key, value) /\ UNCHANGED <<hist, last_insert, ret, aux_vars>>
    \/ \E key \in CursorKeys : Remove(key) /\ UNCHANGED <<hist, last_insert, ret, aux_vars>>
    \/ \E n \in 1..MaxDomains : Resize(n) /\ UNCHANGED <<hist, last_insert, ret, aux_vars>>
    \/ CursorBegin /\ UNCHANGED <<hist, last_insert, aux_vars>>
    \/ CursorEnd /\ UNCHANGED <<hist, last_insert, aux_vars>>
    \/ \E key \in CursorKeys : CursorFind(key) /\ UNCHANGED <<hist, last_insert, aux_vars>>
    \/ CursorIncr /\ UNCHANGED <<hist, last_insert, aux_vars>>
    \/ CursorDerefEnd /\ UNCHANGED <<hist, last_insert, aux_vars>>
    \/ CursorDeref /\ UNCHANGED <<hist, last_insert, aux_vars>>
    \/ CursorDrop /\ UNCHANGED <<hist, last_insert, aux_vars>>

CursorSpec == Init /\ [][CursorNext]_vars

-----------------------------------------------------------------------------
(* Construction, copies, moves and clear *)

\* the maps a copy or move takes from: freshly constructed ones, and ones
\* that had one insert
Others ==
    {Constructed(n) : n \in 1..MaxDomains} \cup
    {MapObject(n, insert_table(NewTable(n), n, "k2", "v1"), NewLocks(n), FALSE) :
        n \in 1..MaxDomains}

\* the values an uninitialised max_domains may be read as
IndeterminateCounts == 0..MaxDomains

\* max_domains is not zero and every index below it is a domain of hash_table
Usable == max_domains >= 1 /\ max_domains <= Len(hash_table)

\* clear()
Clear ==
    /\ it_pc = "idle"
    /\ hash_table' = <<>>
    /\ UNCHANGED <<max_domains, domain_locks, resize_lock, loop_vars, thread_vars>>

\* operator=(const hash_map_128_t& other)
CopyAssign(other) ==
    /\ it_pc = "idle"
    /\ ~other.resize_lock
    /\ hash_table' = other.hash_table
    /\ UNCHANGED <<max_domains, domain_locks, resize_lock, loop_vars, thread_vars>>

\* operator=(hash_map_128_t&& other)
MoveAssign(other) ==
    /\ it_pc = "idle"
    /\ ~other.resize_lock
    /\ max_domains' = other.max_domains
    /\ hash_table' = other.hash_table
    /\ domain_locks' = other.domain_locks
    /\ UNCHANGED <<resize_lock, loop_vars, thread_vars>>

\* hash_map_128_t(const hash_map_128_t& other), other being the map held so
\* far; the variables hold the new object from here on. Only hash_table is
\* assigned: max_domains is left uninitialised, domain_locks is the empty
\* deque and resize_lock a free lock of their default constructors.
CopyConstruct ==
    /\ it_pc = "idle"
    /\ ~resize_lock
    /\ hash_table' = hash_table
    /\ max_domains' \in IndeterminateCounts
    /\ domain_locks' = <<>>
    /\ resize_lock' = FALSE
    /\ UNCHANGED <<loop_vars, thread_vars>>

\* hash_map_128_t(hash_map_128_t&& other), other being the map held so far
MoveConstruct ==
    /\ it_pc = "idle"
    /\ ~resize_lock
    /\ hash_table' = hash_table
    /\ max_domains' \in IndeterminateCounts
    /\ domain_locks' = <<>>
    /\ resize_lock' = FALSE
    /\ UNCHANGED <<loop_vars, thread_vars>>

\* insert, remove or resize on a map that is not usable: hash_table is indexed
\* past its end, or an index is taken modulo zero. The call may end the
\* program or return with nothing visibly changed.
UndefinedCall ==
    /\ it_pc = "idle"
    /\ ~Usable
    /\ it_pc' \in {"terminated", "idle"}
    /\ UNCHANGED <<max_domains, hash_table, domain_locks, resize_lock, it, yielded,
                   thread_vars>>

\* the slots of every domain hash_table has, counted by max_domains or not
SlotsInUse == SumSizes(hash_table, Len(hash_table))

LifeNext ==
    \/ \E key \in Keys, value \in Values :
          /\ Usable /\ SlotsInUse < MaxSlots
          /\ Insert(key, value) /\ UNCHANGED <<hist, last_insert, ret, aux_vars>>
    \/ \E key \in Keys : Usable /\ Remove(key) /\ UNCHANGED <<hist, last_insert, ret, aux_vars>>
    \/ \E n \in 1..MaxDomains : Usable /\ Resize(n) /\ UNCHANGED <<hist, last_insert, ret, aux_vars>>
    \/ Clear /\ UNCHANGED <<hist, last_insert, ret, aux_vars>>
    \/ \E other \in Others : CopyAssign(other) /\ UNCHANGED <<hist, last_insert, ret, aux_vars>>
    \/ \E other \in Others : MoveAssign(other) /\ UNCHANGED <<hist, last_insert, ret, aux_vars>>
    \/ CopyConstruct /\ UNCHANGED <<hist, last_insert, ret, aux_vars>>
    \/ MoveConstruct /\ UNCHANGED <<hist, last_insert, ret, aux_vars>>
    \/ UndefinedCall /\ UNCHANGED <<hist, last_insert, ret, aux_vars>>

LifeSpec == Init /\ [][LifeNext]_vars

-----------------------------------------------------------------------------
(* Threads calling resize on one map *)

\* resize(new_domain_count) is called; calls counts the calls of the thread
ResizeCall(t, new_domain_count) ==
    /\ th[t].pc = "idle"
    /\ SumOver([u \in Threads |-> th[u].calls], Threads) < MaxCalls
    /\ th' = [th EXCEPT ![t].pc = "rehash_lock",
                        ![t].op = "resize",
                        ![t].new_domain_count = new_domain_count,
                        ![t].calls = @ + 1]
    /\ UNCHANGED <<max_domains, hash_table, domain_locks, resize_lock, issued>>

\* the resize lock taken without waiting for it to be free
lock_resize_no_wait(t) == resize_lock' = TRUE

\* scoped_lock lock(resize_lock): spinlock::lock() returns once the lock was
\* free and is now held
lock_resize(t) == ~resize_lock /\ resize_lock' = TRUE

RehashLock(t) ==
    /\ th[t].pc = "rehash_lock"
    /\ lock_resize(t)
    /\ th' = [th EXCEPT ![t].pc = "rehash_build"]
    /\ UNCHANGED <<max_domains, hash_table, domain_locks, issued>>

\* hash_map_128_t new_hash_map(new_domain_count); the range-for takes begin()
RehashBuild(t) ==
    /\ th[t].pc = "rehash_build"
    /\ th' = [th EXCEPT ![t].new_hash_map = Constructed(th[t].new_domain_count),
                        ![t].iter = begin(hash_table, max_domains),
                        ![t].pc = "rehash_loop"]
    /\ UNCHANGED <<max_domains, hash_table, domain_locks, resize_lock, issued>>

\* one turn of the range-for: the test against end(), operator*, the
\* is_valid() test, no_check_insert and operator++
RehashLoop(t) ==
    /\ th[t].pc = "rehash_loop"
    /\ IF ~iter_neq(th[t].iter, end)
       THEN th' = [th EXCEPT ![t].pc = "move_lock"]
       ELSE LET i1 == op_star(hash_table, max_domains, th[t].iter)
                iter == At(hash_table, i1.last.d, i1.last.p)
                new_n == th[t].new_hash_map.max_domains
            IN  th' = [th EXCEPT
                         ![t].new_hash_map.hash_table =
                             IF is_valid(iter.hash_value)
                             THEN no_check_insert(@, new_n, iter.key, iter.value)
                             ELSE @,
                         ![t].iter = op_incr(hash_table, max_domains, i1)]
    /\ UNCHANGED <<max_domains, hash_table, domain_locks, resize_lock, issued>>

\* *this = std::move(new_hash_map): scoped_lock lock(other.resize_lock)
MoveLock(t) ==
    /\ th[t].pc = "move_lock"
    /\ ~th[t].new_hash_map.resize_lock
    /\ th' = [th EXCEPT ![t].new_hash_map.resize_lock = TRUE,
                        ![t].pc = "move_assign"]
    /\ UNCHANGED <<max_domains, hash_table, domain_locks, resize_lock, issued>>

\* the three members are taken from other, and other is left with no domains
MoveAssignStep(t) ==
    /\ th[t].pc = "move_assign"
    /\ max_domains' = th[t].new_hash_map.max_domains
    /\ hash_table' = th[t].new_hash_map.hash_table
    /\ domain_locks' = th[t].new_hash_map.domain_locks
    /\ th' = [th EXCEPT ![t].new_hash_map = MapObject(0, <<>>, <<>>, TRUE),
                        ![t].pc = "move_unlock"]
    /\ UNCHANGED <<resize_lock, issued>>

\* return *this: ~scoped_lock releases other.resize_lock
MoveUnlock(t) ==
    /\ th[t].pc = "move_unlock"
    /\ th' = [th EXCEPT ![t].new_hash_map.resize_lock = FALSE,
                        ![t].pc = "rehash_unlock"]
    /\ UNCHANGED <<max_domains, hash_table, domain_locks, resize_lock, issued>>

\* the end of rehash: new_hash_map is destroyed and ~scoped_lock releases
\* resize_lock
RehashUnlock(t) ==
    /\ th[t].pc = "rehash_unlock"
    /\ resize_lock' = FALSE
    /\ th' = [th EXCEPT ![t] = [IdleThread EXCEPT !.calls = th[t].calls]]
    /\ UNCHANGED <<max_domains, hash_table, domain_locks, issued>>

\* a step of the resize call thread t is in
RehashStep(t) ==
    /\ \/ RehashLock(t)
       \/ RehashBuild(t)
       \/ RehashLoop(t)
       \/ MoveLock(t)
       \/ MoveAssignStep(t)
       \/ MoveUnlock(t)
       \/ RehashUnlock(t)
    /\ UNCHANGED caller_vars

\* the map is filled by one thread before the first resize is called
ResizeNext ==
    \/ \E key \in CursorKeys :
          /\ \A t \in Threads : th[t].calls = 0
          /\ Insert(key, "v1") /\ UNCHANGED <<hist, last_insert, ret, aux_vars>>
    \/ \E t \in Threads, n \in 1..MaxDomains : ResizeCall(t, n) /\ UNCHANGED caller_vars
    \/ \E t \in Threads : RehashLock(t) /\ UNCHANGED caller_vars
    \/ \E t \in Threads : RehashBuild(t) /\ UNCHANGED caller_vars
    \/ \E t \in Threads : RehashLoop(t) /\ UNCHANGED caller_vars
    \/ \E t \in Threads : MoveLock(t) /\ UNCHANGED caller_vars
    \/ \E t \in Threads : MoveAssignStep(t) /\ UNCHANGED caller_vars
    \/ \E t \in Threads : MoveUnlock(t) /\ UNCHANGED caller_vars
    \/ \E t \in Threads : RehashUnlock(t) /\ UNCHANGED caller_vars

ResizeSpec == Init /\ [][ResizeNext]_vars

\* every thread keeps running: a step of its call that stays possible is
\* taken
ResizeFairSpec == ResizeSpec /\ \A t \in Threads : WF_vars(RehashStep(t))

-----------------------------------------------------------------------------
(* atomic_insert when the assignment or the append throws *)

\* the assignment of the value throws before it has written: catch(...) { }
AssignThrows(t) ==
    /\ th[t].pc = "assign"
    /\ th' = [th EXCEPT ![t].pc = "assign_caught"]
    /\ UNCHANGED <<max_domains, hash_table, domain_locks, resize_lock, issued, ret>>

\* push_back throws, which leaves the deque as it was: catch(...) { }
PushBackThrows(t) ==
    /\ th[t].pc = "push_read"
    /\ th' = [th EXCEPT ![t].pc = "push_caught"]
    /\ UNCHANGED <<max_domains, hash_table, domain_locks, resize_lock, issued, ret>>

\* return hash_table[domain_index][key_index.value()] after the catch:
\* ~scoped_lock releases value_modifier_lock
ReturnCaughtValue(t) ==
    /\ th[t].pc = "assign_caught"
    /\ spin_unlock(domain_locks, th[t].domain_index, "value_modifier_lock")
    /\ ret' = Ret("atomic_insert", th[t].key, nullopt, FALSE, end,
                  At(hash_table, th[t].domain_index, value_of(th[t].key_index)))
    /\ th' = [th EXCEPT ![t] = IdleThread]
    /\ UNCHANGED <<max_domains, hash_table, resize_lock, issued>>

\* return hash_table[domain_index].back() after the catch: the last slot of
\* the domain, whatever its key. back() on a domain that is still empty is
\* undefined: the call returns a reference to no element, or the library's
\* check for an empty container ends the program with the lock held.
ReturnCaughtBack(t) ==
    /\ th[t].pc = "push_caught"
    /\ LET dom == Dom(hash_table, th[t].domain_index)
       IN  \/ /\ Len(dom) > 0
              /\ spin_unlock(domain_locks, th[t].domain_index, "push_back_lock")
              /\ ret' = Ret("atomic_insert", th[t].key, nullopt, FALSE, end, dom[Len(dom)])
              /\ th' = [th EXCEPT ![t] = IdleThread]
           \/ /\ Len(dom) = 0
              /\ spin_unlock(domain_locks, th[t].domain_index, "push_back_lock")
              /\ ret' = Ret("atomic_insert", th[t].key, nullopt, FALSE, end, GarbagePair)
              /\ th' = [th EXCEPT ![t] = IdleThread]
           \/ /\ Len(dom) = 0
              /\ th' = [th EXCEPT ![t].pc = "terminated"]
              /\ UNCHANGED <<domain_locks, ret>>
    /\ UNCHANGED <<max_domains, hash_table, resize_lock, issued>>

\* what the steps of a guarded call leave alone, ret apart
call_vars == <<loop_vars, hist, last_insert, aux_vars>>

\* the keys of the calls that may throw
ThrowKeys == {"k1", "k2"}

\* one thread: the map is filled by insert before its first call of
\* atomic_insert
ThrowNext ==
    \/ \E key \in ThrowKeys :
          /\ SumOver(issued, Keys) = 0
          /\ Insert(key, "v1") /\ UNCHANGED <<hist, last_insert, ret, aux_vars>>
    \/ \E key \in ThrowKeys, value \in Values :
          AtomicInsertCall("t1", key, value) /\ UNCHANGED caller_vars
    \/ ScanStep("t1") /\ UNCHANGED caller_vars
    \/ LockValue("t1") /\ UNCHANGED caller_vars
    \/ AssignValue("t1") /\ UNCHANGED caller_vars
    \/ UnlockValue("t1") /\ UNCHANGED caller_vars
    \/ LockPushBack("t1") /\ UNCHANGED caller_vars
    \/ PushBackRead("t1") /\ UNCHANGED caller_vars
    \/ PushBackWrite("t1") /\ UNCHANGED caller_vars
    \/ UnlockPushBack("t1") /\ UNCHANGED caller_vars
    \/ AssignThrows("t1") /\ UNCHANGED call_vars
    \/ PushBackThrows("t1") /\ UNCHANGED call_vars
    \/ ReturnCaughtValue("t1") /\ UNCHANGED call_vars
    \/ ReturnCaughtBack("t1") /\ UNCHANGED call_vars

ThrowSpec == Init /\ [][ThrowNext]_vars

-----------------------------------------------------------------------------
(* One thread resizing while another makes guarded calls and removes *)

\* the keys of the calls made while the map is resized
MixedKeys == {"k1", "k2"}

\* no step has ended the program
Running == \A t \in Threads : th[t].pc # "terminated"

\* thread t is inside atomic_insert or atomic_get
InCall(t) ==
    th[t].pc \in {"scan", "lock_value", "assign", "bind", "unlock_value",
                  "lock_push", "push_read", "push_write", "unlock_push"}

\* the domain and the slot the next step of t's call indexes exist in the
\* domain array as it is now; the locals of the call were computed from the
\* array as it was when the call began
InRange(t) ==
    LET me == th[t]
    IN  CASE me.pc \in {"scan", "push_read"} ->
               me.domain_index < Len(hash_table)
          [] me.pc \in {"lock_value", "unlock_value", "lock_push", "unlock_push"} ->
               me.domain_index < Len(domain_locks)
          [] me.pc \in {"assign", "bind"} ->
               /\ me.domain_index < Len(hash_table)
               /\ value_of(me.key_index) < Len(Dom(hash_table, me.domain_index))
          [] me.pc = "push_write" ->
               /\ me.domain_index < Len(hash_table)
               /\ me.pos <= Len(Dom(hash_table, me.domain_index))
          [] OTHER -> TRUE

\* where a call goes on when a step of it has read or written memory that
\* is no part of the map: to the release of the lock it holds, or to its return
after_undefined(pc) ==
    IF pc \in {"assign", "bind"} THEN "unlock_value"
    ELSE IF pc \in {"push_read", "push_write"} THEN "unlock_push"
    ELSE "idle"

\* a step of the call that indexes hash_table or domain_locks past the end:
\* the program ends, or the access changes nothing of the map and the call
\* goes on
UndefinedStep(t) ==
    /\ InCall(t)
    /\ ~InRange(t)
    /\ \/ th' = [th EXCEPT ![t].pc = "terminated"]
       \/ /\ after_undefined(th[t].pc) = "idle"
          /\ th' = [th EXCEPT ![t] = IdleThread]
       \/ /\ after_undefined(th[t].pc) # "idle"
          /\ th' = [th EXCEPT ![t].pc = after_undefined(th[t].pc)]
    /\ UNCHANGED <<max_domains, hash_table, domain_locks, resize_lock, issued>>

\* a step of the call t is in
MixedCallStep(t) ==
    \/ /\ InRange(t)
       /\ \/ ScanStep(t)
          \/ LockValue(t)
          \/ AssignValue(t)
          \/ BindValue(t)
          \/ UnlockValue(t)
          \/ LockPushBack(t)
          \/ PushBackRead(t)
          \/ PushBackWrite(t)
          \/ UnlockPushBack(t)
    \/ UndefinedStep(t)

\* remove(key) by a thread that is in no other call
RemoveBy(t, key) ==
    /\ th[t].pc = "idle"
    /\ Remove(key)

\* the history when a call of t returns after its last statement: an
\* atomic_insert is recorded with its key, with whether it found the key, and
\* with whether the resize of the other thread was still in progress
MixedReturn(t) ==
    hist' = IF th[t].op = "insert"
            THEN Hist(IF th["t1"].pc # "idle" THEN "insert_in_resize"
                      ELSE "insert_after_resize",
                      th[t].key, 0, has_value(th[t].key_index))
            ELSE hist

\* t1 resizes once and t2 begins its calls, one atomic_insert among them,
\* while t1 is in resize; the map is filled before
MixedNext ==
    \/ \E key \in MixedKeys :
          /\ th["t1"].calls = 0 /\ th["t2"].pc = "idle"
          /\ Insert(key, "v1") /\ UNCHANGED <<hist, last_insert, ret, aux_vars>>
    \/ \E n \in 1..MaxDomains :
          /\ Running /\ th["t1"].calls = 0
          /\ ResizeCall("t1", n) /\ UNCHANGED caller_vars
    \/ Running /\ RehashLock("t1") /\ UNCHANGED caller_vars
    \/ Running /\ RehashBuild("t1") /\ UNCHANGED caller_vars
    \/ Running /\ RehashLoop("t1") /\ UNCHANGED caller_vars
    \/ Running /\ MoveLock("t1") /\ UNCHANGED caller_vars
    \/ Running /\ MoveAssignStep("t1") /\ UNCHANGED caller_vars
    \/ Running /\ MoveUnlock("t1") /\ UNCHANGED caller_vars
    \/ Running /\ RehashUnlock("t1") /\ UNCHANGED caller_vars
    \/ \E key \in MixedKeys :
          /\ Running /\ th["t1"].pc # "idle" /\ SumOver(issued, Keys) = 0
          /\ AtomicInsertCall("t2", key, "v2") /\ UNCHANGED caller_vars
    \/ \E key \in MixedKeys :
          /\ Running /\ th["t1"].pc # "idle"
          /\ AtomicGetCall("t2", key) /\ UNCHANGED caller_vars
    \/ \E key \in MixedKeys :
          /\ Running /\ th["t1"].pc # "idle"
          /\ RemoveBy("t2", key) /\ hist' = Hist("remove", key, 0, FALSE)
          /\ UNCHANGED <<last_insert, ret, aux_vars>>
    \/ Running /\ InRange("t2") /\ ScanStep("t2") /\ UNCHANGED caller_vars
    \/ Running /\ InRange("t2") /\ LockValue("t2") /\ UNCHANGED caller_vars
    \/ Running /\ InRange("t2") /\ AssignValue("t2") /\ UNCHANGED caller_vars
    \/ Running /\ InRange("t2") /\ BindValue("t2") /\ UNCHANGED caller_vars
    \/ /\ Running /\ InRange("t2") /\ UnlockValue("t2") /\ MixedReturn("t2")
       /\ UNCHANGED <<loop_vars, last_insert, ret, aux_vars>>
    \/ Running /\ InRange("t2") /\ LockPushBack("t2") /\ UNCHANGED caller_vars
    \/ Running /\ InRange("t2") /\ PushBackRead("t2") /\ UNCHANGED caller_vars
    \/ Running /\ InRange("t2") /\ PushBackWrite("t2") /\ UNCHANGED caller_vars
    \/ /\ Running /\ InRange("t2") /\ UnlockPushBack("t2") /\ MixedReturn("t2")
       /\ UNCHANGED <<loop_vars, last_insert, ret, aux_vars>>
    \/ Running /\ UndefinedStep("t2") /\ UNCHANGED caller_vars

MixedSpec == Init /\ [][MixedNext]_vars

-----------------------------------------------------------------------------
(* Operations on a _128_BIT_HASH_ object *)

\* a call of operator< may nest MaxFrames deep before the stack is exhausted
MaxFrames == 3

\* size_t arguments: 0, 1, 2, 0xfffffffe, 0xffffffff, 0x100000000,
\* 0x100000001, 0xfffffffffffffffe, 0xffffffffffffffff
SizeValues ==
    {U64Zero, <<1, 0, 0, 0>>, <<2, 0, 0, 0>>, <<LimbMax - 1, LimbMax, 0, 0>>,
     <<LimbMax, LimbMax, 0, 0>>, <<0, 0, 1, 0>>, <<1, 0, 1, 0>>,
     <<LimbMax - 1, LimbMax, LimbMax, LimbMax>>, U64Ones}

\* the size_t arguments passed to the four-argument encode_hash:
\* 1, 0xffffffff, 0x100000001
EncodeValues == {<<1, 0, 0, 0>>, <<LimbMax, LimbMax, 0, 0>>, <<1, 0, 1, 0>>}

\* uint32_t arguments: 0, 0x10000, 0xffffffff
FieldValues == {<<0, 0>>, <<0, 1>>, <<LimbMax, LimbMax>>}

\* the hashes an object is compared with
OtherHashes ==
    {<<a, b>> : a \in {U64Zero, <<1, 0, 0, 0>>, U64Ones},
                b \in {U64Zero, <<1, 0, 0, 0>>, U64Ones}}

\* no call on the object is running
HashIdle == hash_obj.frames = 0 /\ hash_obj.op # "terminated"

\* h.encode_hash(value0, value1, value2, value3)
EncodeHash(value0, value1, value2, value3) ==
    /\ HashIdle
    /\ hash_obj' = HashOp(encode_hash(hash_obj.h, value0, value1, value2, value3),
                          "encode_hash", <<value0, value1, value2, value3>>, NoValue, 0)

\* h.encode_hash(value0): value1, value2 and value3 take their default 0
EncodeHashDefaults(value0) ==
    /\ HashIdle
    /\ hash_obj' = HashOp(encode_hash(hash_obj.h, value0, U64Zero, U64Zero, U64Zero),
                          "encode_hash", <<value0>>, NoValue, 0)

\* h.set_32_bit_field(index, value); an index above 3 prints a message
SetField(index, value) ==
    /\ HashIdle
    /\ hash_obj' = HashOp(set_32_bit_field(hash_obj.h, index, value),
                          "set_32_bit_field", <<index, value>>, NoValue, 0)

\* h[index] of _128_bit_type: the 32-bit field read back
ReadField(index) ==
    /\ HashIdle
    /\ hash_obj' = HashOp(hash_obj.h, "field", <<index>>, Field32(hash_obj.h, index), 0)

\* h.invalidate()
Invalidate ==
    /\ HashIdle
    /\ hash_obj' = HashOp(invalidate(hash_obj.h), "invalidate", <<>>, NoValue, 0)

\* h.is_valid()
IsValid ==
    /\ HashIdle
    /\ hash_obj' = HashOp(hash_obj.h, "is_valid", <<>>, is_valid(hash_obj.h), 0)

\* h = gp_std::hash<Key>{}(key) for a key whose std::hash is s
HashKey(s) ==
    /\ HashIdle
    /\ hash_obj' = HashOp(hash_scalar(s), "hash", <<s>>, NoValue, 0)

\* h == other
OpEq(other) ==
    /\ HashIdle
    /\ hash_obj' = HashOp(hash_obj.h, "eq", <<other>>, op_eq(hash_obj.h, other), 0)

\* h > other
OpGt(other) ==
    /\ HashIdle
    /\ \E r \in op_gt(hash_obj.h, other) :
           hash_obj' = HashOp(hash_obj.h, "gt", <<other>>, r, 0)

\* h < other is called: the body is return (*this < hash)
OpLtCall(other) ==
    /\ HashIdle
    /\ hash_obj' = HashOp(hash_obj.h, "lt", <<other>>, NoValue, 1)

\* the body of operator< calls operator< with the same operands
OpLtRecurse ==
    /\ hash_obj.op = "lt"
    /\ hash_obj.frames >= 1
    /\ hash_obj.frames < MaxFrames
    /\ hash_obj' = [hash_obj EXCEPT !.frames = @ + 1]

\* no room is left for another frame: the program ends
OpLtOverflow ==
    /\ hash_obj.op = "lt"
    /\ hash_obj.frames = MaxFrames
    /\ hash_obj' = [hash_obj EXCEPT !.op = "terminated"]

\* everything but the hash object
map_vars == <<max_domains, hash_table, domain_locks, resize_lock,
              it_pc, it, yielded, hist, last_insert, th, issued, ret, device>>

HashNext ==
    \/ \E v0, v1, v2, v3 \in EncodeValues : EncodeHash(v0, v1, v2, v3) /\ UNCHANGED map_vars
    \/ \E v0 \in SizeValues : EncodeHashDefaults(v0) /\ UNCHANGED map_vars
    \/ \E index \in 0..4, value \in FieldValues : SetField(index, value) /\ UNCHANGED map_vars
    \/ \E index \in 0..3 : ReadField(index) /\ UNCHANGED map_vars
    \/ Invalidate /\ UNCHANGED map_vars
    \/ IsValid /\ UNCHANGED map_vars
    \/ \E s \in SizeValues : HashKey(s) /\ UNCHANGED map_vars
    \/ \E other \in OtherHashes : OpEq(other) /\ UNCHANGED map_vars
    \/ \E other \in OtherHashes : OpGt(other) /\ UNCHANGED map_vars
    \/ \E other \in OtherHashes : OpLtCall(other) /\ UNCHANGED map_vars
    \/ OpLtRecurse /\ UNCHANGED map_vars
    \/ OpLtOverflow /\ UNCHANGED map_vars

\* the map is not used: one constructed map stands for all
HashInit == Init /\ max_domains = 1

HashSpec == HashInit /\ [][HashNext]_vars

-----------------------------------------------------------------------------
(* Stepping and constructing a _128_BIT_HASH_ object (StepSpec) *)

\* uint64_t values: 0, 1, 0xffffffff, 0x100000000, 0x8000000000000000,
\* 0xfffffffffffffffe, 0xffffffffffffffff
StepWords ==
    {U64Zero, <<1, 0, 0, 0>>, <<LimbMax, LimbMax, 0, 0>>, <<0, 0, 1, 0>>,
     <<0, 0, 0, 32768>>, <<LimbMax - 1, LimbMax, LimbMax, LimbMax>>, U64Ones}

\* the values an object holds before it is stepped
StepHashes == {<<a, b>> : a \in StepWords, b \in StepWords}

\* ++h; the caller steps an object one way and then the other, never twice
\* the same way
PreIncr ==
    /\ HashIdle
    /\ hash_obj.op # "pre_incr"
    /\ hash_obj' = HashOp(op_pre_incr(hash_obj.h), "pre_incr", <<hash_obj.h>>, NoValue, 0)

\* --h
PreDecr ==
    /\ HashIdle
    /\ hash_obj.op # "pre_decr"
    /\ hash_obj' = HashOp(op_pre_decr(hash_obj.h), "pre_decr", <<hash_obj.h>>, NoValue, 0)

\* h = _128_BIT_HASH_(id_1, id_2)
Construct(id_1, id_2) ==
    /\ HashIdle
    /\ hash_obj' = HashOp(hash_of_pair(id_1, id_2), "construct", <<id_1, id_2>>, NoValue, 0)

StepNext ==
    \/ PreIncr /\ UNCHANGED map_vars
    \/ PreDecr /\ UNCHANGED map_vars
    \/ \E id_1, id_2 \in StepWords : Construct(id_1, id_2) /\ UNCHANGED map_vars

\* the object starts as a copy of any of StepHashes; the map is not used
StepInit ==
    /\ max_domains = 1
    /\ hash_table = NewTable(max_domains)
    /\ domain_locks = NewLocks(max_domains)
    /\ resize_lock = FALSE
    /\ it_pc = "idle"
    /\ it = end
    /\ yielded = <<>>
    /\ hist = Hist("init", NoValue, 0, FALSE)
    /\ last_insert = [k \in Keys |-> NoValue]
    /\ th = [t \in Threads |-> IdleThread]
    /\ issued = [k \in Keys |-> 0]
    /\ ret = NoRet
    /\ hash_obj \in {HashOp(h, NoValue, <<>>, NoValue, 0) : h \in StepHashes}
    /\ device = NoDevice

StepSpec == StepInit /\ [][StepNext]_vars

-----------------------------------------------------------------------------
(* get on a large domain, with and without a batch-search backend *)

\* search_concurrent delegates when the domain holds more entries than this
search_threshold == 100
\* std::array<min_max, 16> batch_mm
batch_count == 16
\* batch_mm[i].max = batch_mm[i].min + 16
batch_width == 16

\* the sizes of the domain when the search is called, the numbers of work
\* units of the backend, and the scalar keys searched in a domain of n entries
SearchSizes == {100, 150, 256}
WaveCounts == {1, 2}
SearchTargets(n) == {1, n - 1, n + 1}
SearchAppendKeys == {"kF"}

\* gp_std::hash<size_t>::operator(): std::hash of an integer is the integer
scalar_hash(s) == hash_scalar(U64Of(s))

\* the single domain after insert(1, v1), ..., insert(n, v1)
FilledDomain(n) == [i \in 1..n |-> pair(i, "v1", scalar_hash(i))]

\* a device with no search in progress
IdleDevice(registered, wave_count) ==
    DeviceState(registered, wave_count, "idle")

\* no get on a scalar key has returned
NoScalarRet == Ret(NoValue, NoScalar, nullopt, FALSE, end, NoPair)

\* a work unit that has not run the kernel yet
NewUnit == [pc |-> "start", min |-> 0, max |-> 0, batch |-> 0]

\* get_current_wave_min_max(size) in work unit u of wave_count: the units
\* share 0..size-1 in equal consecutive ranges
get_current_wave_min_max(u, wave_count, n) ==
    [min |-> ((u - 1) * n) \div wave_count, max |-> (u * n) \div wave_count]

\* batch_mm[b] of a work unit with the range mm: sixteen slots from
\* mm.min + 16 * b, and for the last batch the slots up to mm.max
batch_mm(mm, b) ==
    LET lo == mm.min + b * batch_width
    IN  [min |-> lo,
         max |-> IF b = batch_count - 1 THEN mm.max ELSE lo + batch_width]

\* the slots of the batch that exist, and the indices it reads past the end
InDomain(local_mm, n) == {i \in local_mm.min..(local_mm.max - 1) : i < n}
PastEnd(local_mm, n) == {i \in local_mm.min..(local_mm.max - 1) : i >= n}

\* get(key) when the domain is small or active_device() is nullptr: the
\* linear scan of search_concurrent
LinearGet(key) ==
    /\ device.pc = "idle"
    /\ LET hash_val == scalar_hash(key)
           domain_index == eval_domain_index(hash_val, max_domains)
           key_index == linear_scan(hash_table, domain_index, hash_val)
       IN  /\ ~(Len(Dom(hash_table, domain_index)) > search_threshold /\ device.registered)
           /\ device' = [IdleDevice(device.registered, device.wave_count)
                            EXCEPT !.key = key, !.hash_val = hash_val,
                                   !.domain_index = domain_index,
                                   !.key_index = key_index]
           /\ ret' = Ret("get", key,
                         IF has_value(key_index)
                         THEN <<At(hash_table, domain_index, value_of(key_index)).value>>
                         ELSE nullopt,
                         FALSE, end, NoPair)

\* get(key) when the domain is large and a backend is registered:
\* search_kernel kernel(...); external_device->load_kernel(&kernel); the
\* call has returned nothing yet
LoadKernel(key) ==
    /\ device.pc = "idle"
    /\ LET hash_val == scalar_hash(key)
           domain_index == eval_domain_index(hash_val, max_domains)
       IN  /\ Len(Dom(hash_table, domain_index)) > search_threshold
           /\ device.registered
           /\ device' = [IdleDevice(device.registered, device.wave_count)
                            EXCEPT !.pc = "poll", !.key = key,
                                   !.hash_val = hash_val,
                                   !.domain_index = domain_index,
                                   !.delegated = TRUE]
    /\ ret' = NoScalarRet

\* while(push_back_lock.is_locked()) { }: the loop is left when the lock is
\* seen free; the lock is not taken
PollAppendLock ==
    /\ device.pc = "poll"
    /\ ~domain_locks[device.domain_index + 1].push_back_lock
    /\ device' = [device EXCEPT !.pc = "launch"]
    /\ UNCHANGED ret

\* external_device->launch_waves(): every work unit is to run the kernel
LaunchWaves ==
    /\ device.pc = "launch"
    /\ device' = [device EXCEPT !.pc = "wait",
                                !.units = [u \in 1..device.wave_count |-> NewUnit]]
    /\ UNCHANGED ret

\* search_kernel::operator(), first statement: the range of the work unit
\* from the size of the domain as it is now
UnitStart(u) ==
    /\ device.pc = "wait"
    /\ device.units[u].pc = "start"
    /\ LET mm == get_current_wave_min_max(u, device.wave_count,
                     Len(Dom(hash_table, device.domain_index)))
       IN  device' = [device EXCEPT !.units[u] =
                         [pc |-> "check", min |-> mm.min, max |-> mm.max, batch |-> 0]]
    /\ UNCHANGED ret

\* for(auto& local_mm : batch_mm) if(task_progress->is_finished()) return;
UnitCheck(u) ==
    /\ device.pc = "wait"
    /\ device.units[u].pc = "check"
    /\ device' = [device EXCEPT !.units[u].pc =
                     IF device.units[u].batch = batch_count \/ device.finished
                     THEN "done" ELSE "scan"]
    /\ UNCHANGED ret

\* the inner loop over one batch. A slot past the end of the domain is read
\* without a bounds check: the program ends, or the bytes read are compared
\* with the searched hash and are equal to it or not
UnitScan(u) ==
    /\ device.pc = "wait"
    /\ device.units[u].pc = "scan"
    /\ LET me == device.units[u]
           dom == Dom(hash_table, device.domain_index)
           local_mm == batch_mm(me, me.batch)
           hits == {i \in InDomain(local_mm, Len(dom)) :
                       dom[i + 1].hash_value = device.hash_val}
           found(i) == device' = [device EXCEPT !.key_index = <<i>>,
                                                !.finished = TRUE,
                                                !.units[u].pc = "done"]
       IN  IF hits # {}
           THEN found(Min(hits))
           ELSE \/ device' = [device EXCEPT !.units[u].batch = me.batch + 1,
                                            !.units[u].pc = "check"]
                \/ /\ PastEnd(local_mm, Len(dom)) # {}
                   /\ \/ device' = [device EXCEPT !.pc = "terminated"]
                      \/ \E i \in PastEnd(local_mm, Len(dom)) : found(i)
    /\ UNCHANGED ret

\* external_device->wait() returns when every work unit has returned;
\* search_concurrent returns key_index and get the value of that slot; the
\* kernel and the work units are gone
WaitReturns ==
    /\ device.pc = "wait"
    /\ \A u \in 1..Len(device.units) : device.units[u].pc = "done"
    /\ device' = [device EXCEPT !.pc = "idle", !.finished = FALSE, !.units = <<>>]
    /\ LET dom == Dom(hash_table, device.domain_index)
       IN  ret' = Ret("get", device.key,
                      IF ~has_value(device.key_index) THEN nullopt
                      ELSE IF value_of(device.key_index) < Len(dom)
                           THEN <<dom[value_of(device.key_index) + 1].value>>
                           ELSE <<GarbagePair.value>>,
                      FALSE, end, NoPair)

SearchRunning == device.pc # "terminated"

search_vars == <<loop_vars, hist, last_insert, ret, hash_obj>>
table_vars == <<max_domains, hash_table, domain_locks, resize_lock>>
other_vars == <<loop_vars, hist, last_insert, hash_obj, thread_vars>>

\* one thread calls get on the scalar keys; the other calls atomic_insert
\* once, runs its scan before the first get, with no get during the scan,
\* and its append at any time
SearchNext ==
    \/ \E key \in SearchAppendKeys :
          /\ device.key = NoScalar
          /\ SumOver(issued, Keys) = 0
          /\ AtomicInsertCall("t2", key, "v2") /\ UNCHANGED caller_vars
    \/ /\ device.key = NoScalar
       /\ ScanStep("t2") /\ UNCHANGED caller_vars
    \/ SearchRunning /\ LockPushBack("t2") /\ UNCHANGED caller_vars
    \/ SearchRunning /\ PushBackRead("t2") /\ UNCHANGED caller_vars
    \/ SearchRunning /\ PushBackWrite("t2") /\ UNCHANGED caller_vars
    \/ SearchRunning /\ UnlockPushBack("t2") /\ UNCHANGED caller_vars
    \/ \E key \in SearchTargets(Len(Dom(hash_table, 0))) :
          /\ th["t2"].pc # "scan"
          /\ LinearGet(key) /\ UNCHANGED <<table_vars, other_vars>>
    \/ \E key \in SearchTargets(Len(Dom(hash_table, 0))) :
          /\ th["t2"].pc # "scan"
          /\ LoadKernel(key) /\ UNCHANGED <<table_vars, other_vars>>
    \/ PollAppendLock /\ UNCHANGED <<table_vars, other_vars>>
    \/ LaunchWaves /\ UNCHANGED <<table_vars, other_vars>>
    \/ \E u \in 1..Len(device.units) : UnitStart(u) /\ UNCHANGED <<table_vars, other_vars>>
    \/ \E u \in 1..Len(device.units) : UnitCheck(u) /\ UNCHANGED <<table_vars, other_vars>>
    \/ \E u \in 1..Len(device.units) : UnitScan(u) /\ UNCHANGED <<table_vars, other_vars>>
    \/ WaitReturns /\ UNCHANGED <<table_vars, other_vars>>

\* one domain filled by insert, a backend registered or not
SearchInit ==
    /\ max_domains = 1
    /\ \E n \in SearchSizes : hash_table = <<FilledDomain(n)>>
    /\ domain_locks = NewLocks(max_domains)
    /\ resize_lock = FALSE
    /\ it_pc = "idle"
    /\ it = end
    /\ yielded = <<>>
    /\ hist = Hist("init", NoValue, 0, FALSE)
    /\ last_insert = [k \in Keys |-> NoValue]
    /\ th = [t \in Threads |-> IdleThread]
    /\ issued = [k \in Keys |-> 0]
    /\ ret = NoScalarRet
    /\ hash_obj = NoHashOp
    /\ \E registered \in BOOLEAN, wave_count \in WaveCounts :
          device = IdleDevice(registered, wave_count)

SearchSpec == SearchInit /\ [][SearchNext]_vars

-----------------------------------------------------------------------------
(* A map whose HashFunc gives one key the all-ones value *)

OnesSpecKeys == {"k1"} \cup OnesKeys

\* insert and remove with the value each key was given last, which is none
\* for a key that was never inserted or was removed since
OnesInsert(key, value) ==
    /\ Insert(key, value)
    /\ hist' = Hist("insert", key, 0, contains(hash_table, max_domains, key))
    /\ last_insert' = [last_insert EXCEPT ![key] = value]

OnesRemove(key) ==
    /\ Remove(key)
    /\ hist' = Hist("remove", key, 0, contains(hash_table, max_domains, key))
    /\ last_insert' = [last_insert EXCEPT ![key] = NoValue]

OnesNext ==
    \/ \E key \in OnesSpecKeys, value \in Values :
          OnesInsert(key, value) /\ UNCHANGED <<ret, aux_vars>>
    \/ \E key \in OnesSpecKeys : OnesRemove(key) /\ UNCHANGED <<ret, aux_vars>>
    \/ \E n \in 1..MaxDomains : DoResize(n) /\ UNCHANGED <<ret, aux_vars>>
    \/ IterBegin /\ UNCHANGED <<hist, last_insert, ret, aux_vars>>
    \/ IterDeref /\ UNCHANGED <<hist, last_insert, ret, aux_vars>>
    \/ IterIncr /\ UNCHANGED <<hist, last_insert, ret, aux_vars>>
    \/ IterEnd /\ UNCHANGED <<hist, last_insert, ret, aux_vars>>

OnesInit ==
    /\ max_domains \in 1..MaxDomains
    /\ hash_table = NewTable(max_domains)
    /\ domain_locks = NewLocks(max_domains)
    /\ resize_lock = FALSE
    /\ it_pc = "idle"
    /\ it = end
    /\ yielded = <<>>
    /\ hist = Hist("init", NoValue, 0, FALSE)
    /\ last_insert = [k \in OnesSpecKeys |-> NoValue]
    /\ th = [t \in Threads |-> IdleThread]
    /\ issued = [k \in Keys |-> 0]
    /\ ret = NoRet
    /\ hash_obj = NoHashOp
    /\ device = NoDevice

OnesSpec == OnesInit /\ [][OnesNext]_vars

-----------------------------------------------------------------------------
(* Observations used by the properties *)

Tombstone == <<U64Ones, U64Ones>>

\* every slot of the table, domains in ascending order, slots in insertion order
RECURSIVE SlotsFrom(_, _, _)
SlotsFrom(table, n, d) ==
    IF d >= n THEN <<>>
    ELSE [i \in 1..Len(Dom(table, d)) |-> [d |-> d, p |-> i - 1, e |-> At(table, d, i - 1)]]
         \o SlotsFrom(table, n, d + 1)

AllSlots(table, n) == SlotsFrom(table, n, 0)

IsLiveSlot(s) == is_valid(s.e.hash_value)

LiveSlots(table, n) == SelectSeq(AllSlots(table, n), IsLiveSlot)

LiveCount(table, n) == Len(LiveSlots(table, n))

\* the number of slots of a sequence of slots that hold entry e
CountOf(slots, e) == Cardinality({i \in 1..Len(slots) : slots[i].e = e})

EntriesOf(slots) == {slots[i].e : i \in 1..Len(slots)}

-----------------------------------------------------------------------------
(* Properties of single-threaded use (Spec) *)

\* C1: if the last operation affecting key K (an operation on K or on a key
\* with K's hash) was insert(K, v), then get(K) holds v and contains(K) is true.
C1_InsertThenGet ==
    \A k \in Keys :
        last_insert[k] # NoValue =>
            /\ get(hash_table, max_domains, k) = <<last_insert[k]>>
            /\ contains(hash_table, max_domains, k)

\* a key inserted, then overwritten, still readable after another key was
\* removed and the table was resized
C1_Witness ==
    /\ hist.op = "resize"
    /\ last_insert["k2"] = "v2"
    /\ last_insert["kF"] = "v1"
    /\ last_insert["k1"] = NoValue
    /\ max_domains = 3

\* C2: remove(K) of a live K: contains(K) is false and get(K) is empty
\* afterwards, every domain keeps its physical size, the slot of K carries the
\* all-ones hash, its key and value and every other slot are unchanged.
C2_RemoveKeepsSlot ==
    [][\A k \in Keys :
          (hist'.op = "remove" /\ hist'.key = k /\ contains(hash_table, max_domains, k)) =>
              LET d == eval_domain_index(hash_fun(k), max_domains)
                  idx == value_of(search_concurrent(hash_table, max_domains, k))
              IN  /\ ~contains(hash_table', max_domains', k)
                  /\ get(hash_table', max_domains', k) = nullopt
                  /\ max_domains' = max_domains
                  /\ \A dd \in 0..(max_domains - 1) :
                        get_domain_size(hash_table', max_domains', dd) =
                            get_domain_size(hash_table, max_domains, dd)
                  /\ At(hash_table', d, idx).hash_value = Tombstone
                  /\ At(hash_table', d, idx).key = At(hash_table, d, idx).key
                  /\ At(hash_table', d, idx).value = At(hash_table, d, idx).value
                  /\ \A dd \in 0..(max_domains - 1) :
                        \A i \in 0..(Len(Dom(hash_table, dd)) - 1) :
                            (dd # d \/ i # idx) =>
                                At(hash_table', dd, i) = At(hash_table, dd, i)
    ]_vars

\* a live key was removed from a domain that holds another live entry, and
\* its slot is still there
C2_Witness ==
    /\ hist.op = "remove" /\ hist.hit
    /\ ~contains(hash_table, max_domains, hist.key)
    /\ \E d \in 0..(max_domains - 1) :
          /\ Len(Dom(hash_table, d)) >= 2
          /\ \E i, j \in 0..(Len(Dom(hash_table, d)) - 1) :
                /\ At(hash_table, d, i).key = hist.key
                /\ At(hash_table, d, i).hash_value = Tombstone
                /\ is_valid(At(hash_table, d, j).hash_value)

\* C3: insert(K, v2) of a live K writes v2 into the existing slot: size() is
\* unchanged, get(K) holds v2 and nothing else in the table changes.
C3_ReinsertOverwrites ==
    [][\A k \in Keys :
          (hist'.op = "insert" /\ hist'.key = k /\ contains(hash_table, max_domains, k)) =>
              LET d == eval_domain_index(hash_fun(k), max_domains)
                  idx == value_of(search_concurrent(hash_table, max_domains, k))
                  v2 == last_insert'[k]
              IN  /\ size(hash_table', max_domains') = size(hash_table, max_domains)
                  /\ get(hash_table', max_domains', k) = <<v2>>
                  /\ hash_table' = [hash_table EXCEPT ![d + 1][idx + 1].value = v2]
    ]_vars

\* a live key was inserted again with a value different from the one of
\* another entry, in a table that also holds a tombstone
C3_Witness ==
    /\ hist.op = "insert" /\ hist.hit
    /\ get(hash_table, max_domains, hist.key) = <<"v2">>
    /\ size(hash_table, max_domains) = 3
    /\ LiveCount(hash_table, max_domains) = 2

\* C4: size() equals the number of entries whose hash is not the tombstone
\* sentinel.
C4_SizeIsLiveCount ==
    size(hash_table, max_domains) = LiveCount(hash_table, max_domains)

\* C5: after resize(n), n > 0: buckets_count() is n, every key that was live
\* is retrievable with the value it had, and the live count is unchanged.
C5_ResizePreservesLive ==
    [][hist'.op = "resize" =>
          /\ buckets_count(max_domains') = hist'.n
          /\ \A k \in Keys :
                contains(hash_table, max_domains, k) =>
                    get(hash_table', max_domains', k) = get(hash_table, max_domains, k)
          /\ LiveCount(hash_table', max_domains') = LiveCount(hash_table, max_domains)
    ]_vars

\* a resize to three domains that left live entries in two of them
C5_Witness ==
    /\ hist.op = "resize" /\ hist.n = 3 /\ max_domains = 3
    /\ Len(Dom(hash_table, 0)) >= 1
    /\ Len(Dom(hash_table, 1)) >= 1
    /\ contains(hash_table, max_domains, "kD")

\* C6: after resize(n) the table holds one slot for each entry that was live
\* and none for a tombstoned one: the physical size is the former live count,
\* no slot carries the tombstone hash, and each entry occurs as often as it
\* occurred live before.
C6_ResizeDropsTombstones ==
    [][hist'.op = "resize" =>
          LET before == LiveSlots(hash_table, max_domains)
              after == AllSlots(hash_table', max_domains')
          IN  /\ get_total_size(hash_table', max_domains') = Len(before)
              /\ \A i \in 1..Len(after) : after[i].e.hash_value # Tombstone
              /\ \A e \in EntriesOf(before) \cup EntriesOf(after) :
                    CountOf(after, e) = CountOf(before, e)
    ]_vars

\* a resize that dropped at least one slot and kept at least two
C6_Witness ==
    /\ hist.op = "resize"
    /\ get_total_size(hash_table, max_domains) = 2
    /\ last_insert["k1"] = NoValue /\ last_insert["kD"] = NoValue
    /\ last_insert["k2"] # NoValue /\ last_insert["kF"] # NoValue

LiveWithHashOf(table, n, key) ==
    {i \in 1..Len(AllSlots(table, n)) :
        AllSlots(table, n)[i].e.hash_value = hash_fun(key)}

\* C30: two distinct keys K1 and K2 with equal hashes are the same key to
\* the map: insert(K2, v2) on a map that contains K1 leaves size() unchanged
\* and a single entry with that hash, get(K1) and get(K2) both return v2
\* afterwards, and after remove(K2) contains(K1) is false.
C30_EqualHashesIndistinguishable ==
    [][\A K1, K2 \in Keys :
          (K1 # K2 /\ SameHash(K1, K2)) =>
             /\ (/\ hist'.op = "insert" /\ hist'.key = K2
                 /\ contains(hash_table, max_domains, K1)) =>
                    /\ size(hash_table', max_domains') = size(hash_table, max_domains)
                    /\ Cardinality(LiveWithHashOf(hash_table', max_domains', K1)) = 1
                    /\ get(hash_table', max_domains', K1) = <<last_insert'[K2]>>
                    /\ get(hash_table', max_domains', K2) = <<last_insert'[K2]>>
             /\ (hist'.op = "remove" /\ hist'.key = K2) =>
                    ~contains(hash_table', max_domains', K1)
      ]_vars

\* K1 was inserted with one value and K2, a different key with the same hash,
\* was then inserted with another: the one entry holds K1 and the second value
C30_Witness ==
    /\ hist.op = "insert" /\ hist.hit
    /\ \E d \in 0..(max_domains - 1) : \E i \in 0..(Len(Dom(hash_table, d)) - 1) :
          /\ At(hash_table, d, i).key # hist.key
          /\ At(hash_table, d, i).hash_value = hash_fun(hist.key)
          /\ At(hash_table, d, i).value = last_insert[hist.key]
          /\ At(hash_table, d, i).value = "v2"

\* C32: in every state reached by insert, remove and resize, no two live
\* entries of the map carry the same hash.
C32_LiveHashesDistinct ==
    LET live == LiveSlots(hash_table, max_domains)
    IN  \A i, j \in 1..Len(live) :
            i # j => live[i].e.hash_value # live[j].e.hash_value

\* insert of a key whose hash is already stored under another key, in a map
\* with a second live entry and a tombstone: nothing was appended
C32_Witness ==
    /\ hist.op = "insert" /\ hist.hit /\ hist.key = "kD"
    /\ LiveCount(hash_table, max_domains) >= 2
    /\ Len(AllSlots(hash_table, max_domains)) > LiveCount(hash_table, max_domains)
    /\ \E s \in EntriesOf(LiveSlots(hash_table, max_domains)) : s.key = "k1"

-----------------------------------------------------------------------------
(* Properties of the queries (QuerySpec) *)

Queries == {"get", "atomic_get", "contains", "find"}

\* some slot of the table carries the hash of key
HoldsHashOf(table, n, key) ==
    \E d \in 0..(n - 1) : \E i \in 0..(Len(Dom(table, d)) - 1) :
        At(table, d, i).hash_value = hash_fun(key)

\* some slot of the table holds key under the tombstone hash
HoldsTombstoneOf(table, n, key) ==
    \E d \in 0..(n - 1) : \E i \in 0..(Len(Dom(table, d)) - 1) :
        /\ At(table, d, i).key = key
        /\ At(table, d, i).hash_value = Tombstone

-----------------------------------------------------------------------------
(* Properties of construction, copies, moves and clear (LifeSpec) *)

\* C17: the number of domains of hash_table, the number of lock pairs of
\* domain_locks and buckets_count() are one number.
C17_DomainCountsAgree ==
    /\ Len(hash_table) = buckets_count(max_domains)
    /\ Len(domain_locks) = buckets_count(max_domains)

-----------------------------------------------------------------------------
(* Properties of a held iterator (CursorSpec) *)

\* C15: operator* on an iterator at the end sentinel throws and returns no
\* pair, whether the iterator came from end() or reached the sentinel by
\* operator++ after earlier dereferences.
C15_EndDerefFailsFast ==
    (ret.op = "deref" /\ is_end(ret.iter)) => (ret.flag /\ ret.e = NoPair)

\* the domains that hold at least one slot, live or tombstoned
NonEmptyDomains == {d \in 0..(max_domains - 1) : Len(Dom(hash_table, d)) > 0}

\* C18: begin() returns an iterator at slot 0 of the lowest-indexed domain
\* that holds at least one slot, and the end sentinel when no domain holds
\* any.
C18_BeginAtFirstNonEmptyDomain ==
    ret.op = "begin" =>
        IF NonEmptyDomains = {}
        THEN ret.iter.d = MAX_INDEX /\ ret.iter.p = MAX_INDEX
        ELSE /\ ret.iter.d = Min(NonEmptyDomains)
             /\ ret.iter.p = 0

\* begin() skipped the empty domain 0 of a map whose domains 1 and 2 hold slots
C18_Witness ==
    /\ ret.op = "begin"
    /\ max_domains = 3
    /\ NonEmptyDomains = {1, 2}
    /\ ret.iter.d = 1
    /\ ret.iter.p = 0

\* operator++ applied k times
RECURSIVE AdvanceTimes(_, _)
AdvanceTimes(i, k) ==
    IF k = 0 THEN i ELSE AdvanceTimes(op_incr(hash_table, max_domains, i), k - 1)

\* C19: operator++ moves an iterator at (d, s) to (d, s + 1) when s + 1 is a
\* slot of d, else to slot 0 of the lowest-indexed non-empty domain above d,
\* else to the end sentinel; an iterator at the end sentinel stays there; and
\* size() applications of operator++ take any iterator to the end sentinel.
C19_AdvanceOrder ==
    /\ ret.op = "incr" =>
          LET old == ret.iter
              later == {d \in NonEmptyDomains : d > old.d}
          IN  IF old.d = MAX_INDEX /\ old.p = MAX_INDEX
              THEN it.d = MAX_INDEX /\ it.p = MAX_INDEX
              ELSE IF old.p + 1 < Len(Dom(hash_table, old.d))
              THEN it.d = old.d /\ it.p = old.p + 1
              ELSE IF later # {}
              THEN it.d = Min(later) /\ it.p = 0
              ELSE it.d = MAX_INDEX /\ it.p = MAX_INDEX
    /\ it_pc = "held" =>
          LET last == AdvanceTimes(it, size(hash_table, max_domains))
          IN  last.d = MAX_INDEX /\ last.p = MAX_INDEX

\* operator++ left the last slot of domain 0 for slot 0 of domain 1, in a map
\* whose domain 2 holds a slot too
C19_Witness ==
    /\ ret.op = "incr"
    /\ ret.iter.d = 0
    /\ ret.iter.p = Len(Dom(hash_table, 0)) - 1
    /\ NonEmptyDomains = {0, 1, 2}
    /\ it.d = 1
    /\ it.p = 0

-----------------------------------------------------------------------------
(* Properties of the range-for loop (IterSpec) *)

\* C7: a full range iteration yields every live entry exactly once, domains in
\* ascending order and slots in insertion order within a domain.
C7_IterationYieldsLiveOnce ==
    it_pc = "done" =>
        SelectSeq(yielded, IsLiveSlot) = LiveSlots(hash_table, max_domains)

\* a completed loop over live entries in two domains with a tombstone between
C7_Witness ==
    /\ it_pc = "done"
    /\ Len(yielded) = 2
    /\ yielded[1].d # yielded[2].d
    /\ IsLiveSlot(yielded[1]) /\ IsLiveSlot(yielded[2])
    /\ get_total_size(hash_table, max_domains) = 3

\* C8: no dereference of the loop returns an entry whose hash is the tombstone
\* sentinel.
C8_NeverYieldsTombstone ==
    \A i \in 1..Len(yielded) : is_valid(yielded[i].e.hash_value)

-----------------------------------------------------------------------------
(* Properties of the guarded entry points (AtomicSpec) *)

AllIdle == \A t \in Threads : th[t].pc = "idle"

IssuedKeys == {k \in Keys : issued[k] > 0}

\* the atomic_insert calls issued so far were on pairwise distinct keys with
\* pairwise distinct hashes
DistinctCalls ==
    /\ \A k \in Keys : issued[k] <= 1
    /\ \A a, b \in IssuedKeys : a # b => ~SameHash(a, b)

\* C9: once every atomic_insert of pairwise distinct keys (with distinct
\* hashes) into an empty map has returned, each of the keys is held by exactly
\* one slot, which is live, and the map holds nothing else.
C9_DistinctInsertsAllPresent ==
    (AllIdle /\ DistinctCalls) =>
        LET slots == AllSlots(hash_table, max_domains)
        IN  /\ \A k \in IssuedKeys :
                  /\ Cardinality({i \in 1..Len(slots) : slots[i].e.key = k}) = 1
                  /\ Cardinality({i \in 1..Len(slots) :
                                     slots[i].e.hash_value = hash_fun(k)}) = 1
                  /\ contains(hash_table, max_domains, k)
            /\ Len(slots) = Cardinality(IssuedKeys)

\* three distinct keys were inserted, two of them into the same domain, with
\* values of both threads
C9_Witness ==
    /\ AllIdle /\ DistinctCalls
    /\ Cardinality(IssuedKeys) = 3
    /\ \E d \in 0..(max_domains - 1) :
          /\ Len(Dom(hash_table, d)) >= 2
          /\ At(hash_table, d, 0).value # At(hash_table, d, 1).value

InAppend(t) == th[t].pc \in {"push_read", "push_write", "unlock_push"}

InValueAccess(t) == th[t].pc \in {"assign", "bind", "unlock_value"}

\* C10: within one domain at most one thread is inside a guarded append and
\* at most one thread is inside a guarded value access.
C10_GuardedSectionsExclusive ==
    \A a, b \in Threads :
        (a # b /\ th[a].domain_index = th[b].domain_index) =>
            /\ ~(InAppend(a) /\ InAppend(b))
            /\ ~(InValueAccess(a) /\ InValueAccess(b))

\* one thread is inside the append of a domain while the other waits for the
\* same lock
C10_Witness ==
    \E a, b \in Threads :
        /\ a # b
        /\ th[a].domain_index = th[b].domain_index
        /\ th[a].pc = "push_write"
        /\ th[b].pc = "lock_push"
        /\ domain_locks[th[a].domain_index + 1].push_back_lock

\* the locks of the domain a call works on
OwnLocks(t) == domain_locks[th[t].domain_index + 1]

CallStep(t) ==
    \/ ScanStep(t)
    \/ LockValue(t)
    \/ AssignValue(t)
    \/ BindValue(t)
    \/ UnlockValue(t)
    \/ LockPushBack(t)
    \/ PushBackRead(t)
    \/ PushBackWrite(t)
    \/ UnlockPushBack(t)

\* C12: calls on keys of different domains never contend. A lock of domain d
\* is only ever held by a call whose key routes to d, and a call whose domain
\* no other running call works on is never blocked, whatever locks of other
\* domains are held.
C12_DomainsIndependent ==
    /\ \A d \in 0..(max_domains - 1) :
          /\ domain_locks[d + 1].push_back_lock =>
                \E t \in Threads : InAppend(t) /\ th[t].domain_index = d
          /\ domain_locks[d + 1].value_modifier_lock =>
                \E t \in Threads : InValueAccess(t) /\ th[t].domain_index = d
    /\ \A t \in Threads :
          (/\ th[t].pc # "idle"
           /\ \A u \in Threads \ {t} :
                 th[u].pc = "idle" \/ th[u].domain_index # th[t].domain_index) =>
              ENABLED CallStep(t)

\* one thread is about to take the value lock of its domain while the other
\* is inside the append of another domain, holding that domain's append lock
C12_Witness ==
    \E a, b \in Threads :
        /\ th[a].domain_index # th[b].domain_index
        /\ th[a].pc = "lock_value"
        /\ th[b].pc = "push_write"
        /\ OwnLocks(b).push_back_lock

\* the live slots whose hash is that of key k
LiveWithKeyHash(k) ==
    LET live == LiveSlots(hash_table, max_domains)
    IN  {i \in 1..Len(live) : live[i].e.hash_value = hash_fun(k)}

AllReturned == \A t \in Threads : th[t].pc = "idle"

\* C33: when the calls of both threads have returned, the map holds exactly
\* one live entry for every key that atomic_insert was called with, and its
\* value is a value passed by one of the calls
C33_OneEntryPerInsertedKey ==
    AllReturned =>
        \A k \in Keys :
            issued[k] > 0 =>
                /\ Cardinality(LiveWithKeyHash(k)) = 1
                /\ \A i \in LiveWithKeyHash(k) :
                       LiveSlots(hash_table, max_domains)[i].e.value
                           \in {ThreadValue(t) : t \in Threads}

-----------------------------------------------------------------------------
(* Properties of concurrent resize (ResizeFairSpec) *)

\* between acquiring resize_lock and releasing it
InRehash(t) ==
    th[t].pc \in {"rehash_build", "rehash_loop", "move_lock", "move_assign",
                  "move_unlock", "rehash_unlock"}

\* C20: no two threads are inside the body of rehash at once, resize_lock is
\* held all the time a thread is inside it, which includes the replacement
\* of the domain array, the lock of the map that was built is free when the
\* move assignment asks for it, and every resize that was called returns.
C20_ResizeExclusiveAndCompletes ==
    /\ [](\A a, b \in Threads : a # b => ~(InRehash(a) /\ InRehash(b)))
    /\ [](\A t \in Threads : InRehash(t) => resize_lock)
    /\ [](\A t \in Threads : th[t].pc = "move_lock" => ~th[t].new_hash_map.resize_lock)
    /\ \A t \in Threads : (th[t].pc # "idle") ~> (th[t].pc = "idle")

\* one thread has taken the resize lock of the map it built and is about to
\* replace the domain array while the other waits for the resize lock
C20_Witness ==
    \E a, b \in Threads :
        /\ th[a].pc = "move_assign"
        /\ th[a].new_hash_map.resize_lock
        /\ th[b].pc = "rehash_lock"
        /\ resize_lock
        /\ get_total_size(th[a].new_hash_map.hash_table, th[a].new_hash_map.max_domains) >= 2

-----------------------------------------------------------------------------
(* Properties of the hash object (HashSpec) *)

\* every bit of both words is set
AllOnes(h) == \A w \in 1..2, l \in 1..4 : h[w][l] = LimbMax

\* C26: invalidate() leaves both 64-bit halves all-ones, and is_valid()
\* returns false exactly when both halves are all-ones: it returns true for
\* every other value, one half all-ones included.
C26_InvalidateAndIsValid ==
    /\ hash_obj.op = "invalidate" => AllOnes(hash_obj.h)
    /\ hash_obj.op = "is_valid" => (hash_obj.result = FALSE <=> AllOnes(hash_obj.h))

\* is_valid() returned true for a value whose first half is all-ones
C26_Witness ==
    /\ hash_obj.op = "is_valid"
    /\ hash_obj.result = TRUE
    /\ hash_obj.h[1] = U64Ones

\* a is greater than b with _64_bit_id[0] compared first
LexGt(a, b) ==
    \/ U64Gt(a[1], b[1])
    \/ a[1] = b[1] /\ U64Gt(a[2], b[2])

\* C27: a < b and a > b each terminate and return the lexicographic
\* comparison of the two halves, _64_bit_id[0] first: no call ends the program
\* and every a > b that returned gave that comparison.
C27_OrderingTotal ==
    /\ hash_obj.op # "terminated"
    /\ hash_obj.op = "gt" => hash_obj.result = LexGt(hash_obj.h, hash_obj.args[1])

\* the low 32 bits of a size_t
Low32(w) == <<w[1], w[2]>>

\* the argument i of an encode_hash call, 0 when it was omitted
EncodeArg(args, i) == IF i + 1 <= Len(args) THEN args[i + 1] ELSE U64Zero

\* field 0 is the low half of _64_bit_id[0], field 1 its high half, field 2
\* the low half of _64_bit_id[1], field 3 its high half
Layout(f0, f1, f2, f3) == <<f0 \o f1, f2 \o f3>>

\* C28: after encode_hash(v0, v1, v2, v3) 32-bit field i holds v_i modulo
\* 2^32, an omitted argument counting as 0, and reads back as that value;
\* set_32_bit_field(i, v) makes field i read v and leaves the other three
\* fields as they were.
C28_EncodeAndFields ==
    [][/\ hash_obj'.op = "encode_hash" =>
            /\ hash_obj'.h = Layout(Low32(EncodeArg(hash_obj'.args, 0)),
                                    Low32(EncodeArg(hash_obj'.args, 1)),
                                    Low32(EncodeArg(hash_obj'.args, 2)),
                                    Low32(EncodeArg(hash_obj'.args, 3)))
            /\ \A i \in 0..3 :
                   Field32(hash_obj'.h, i) = Low32(EncodeArg(hash_obj'.args, i))
       /\ (hash_obj'.op = "set_32_bit_field" /\ hash_obj'.args[1] \in 0..3) =>
            \A i \in 0..3 :
                Field32(hash_obj'.h, i) =
                    IF i = hash_obj'.args[1] THEN hash_obj'.args[2]
                    ELSE Field32(hash_obj.h, i)
      ]_vars

\* encode_hash was given 0x100000001 for field 1 and the field reads 1, next
\* to a field 0 of 0xffffffff
C28_Witness ==
    /\ hash_obj.op = "encode_hash"
    /\ Len(hash_obj.args) = 4
    /\ hash_obj.args[2] = <<1, 0, 1, 0>>
    /\ Field32(hash_obj.h, 1) = <<1, 0>>
    /\ Field32(hash_obj.h, 0) = <<LimbMax, LimbMax>>

\* (s + 1) modulo 2^32
Low32Inc(s) ==
    IF s[1] < LimbMax THEN <<s[1] + 1, s[2]>>
    ELSE IF s[2] < LimbMax THEN <<0, s[2] + 1>>
    ELSE <<0, 0>>

\* C29: the default hash function never produces the all-ones value: for
\* every scalar hash s the result is the encoding of (s+1, s, s+1, s) modulo
\* 2^32 and is valid, and the keys of the model with that scalar hash get
\* this same value.
C29_DefaultHashNeverTombstone ==
    /\ hash_obj.op = "hash" =>
          LET s == hash_obj.args[1]
          IN  /\ hash_obj.h = Layout(Low32Inc(s), Low32(s), Low32Inc(s), Low32(s))
              /\ ~AllOnes(hash_obj.h)
              /\ is_valid(hash_obj.h)
              /\ \A key \in Keys \cup CursorKeys :
                     StdHash(key) = s => hash_fun(key) = hash_obj.h
    /\ \A key \in Keys \cup CursorKeys : is_valid(hash_fun(key))

\* the scalar hash was 0xffffffff: field 1 is all-ones and field 0 wrapped to 0
C29_Witness ==
    /\ hash_obj.op = "hash"
    /\ hash_obj.args[1] = <<LimbMax, LimbMax, 0, 0>>
    /\ Field32(hash_obj.h, 0) = <<0, 0>>
    /\ Field32(hash_obj.h, 1) = <<LimbMax, LimbMax>>

\* C37: with the default hash function every domain is usable: for every
\* domain count n and every domain index d below n some scalar key hash gets
\* a hash that eval_domain_index routes to d
C37_EveryDomainReachable ==
    hash_obj.op = "hash" =>
        \A n \in 1..MaxDomains :
            \A d \in 0..(n - 1) :
                \E s \in SizeValues \cup {hash_obj.args[1]} :
                    eval_domain_index(hash_scalar(s), n) = d

-----------------------------------------------------------------------------
(* Properties of atomic_insert when a step throws (ThrowSpec) *)

\* the assignment or the append of the call of t has thrown and the
\* exception was caught
InCatch(t) == th[t].pc \in {"assign_caught", "push_caught"}

\* C25: when the assignment or the append inside atomic_insert throws, the
\* entries of the map are as they were, and the call then returns to its
\* caller with the lock it took released and the entries still unchanged;
\* the program is never ended instead.
C25_ExceptionsDiscarded ==
    [][\A t \in Threads :
          /\ th'[t].pc # "terminated"
          /\ (~InCatch(t) /\ th'[t].pc \in {"assign_caught", "push_caught"}) =>
                hash_table' = hash_table
          /\ InCatch(t) =>
                /\ th'[t].pc = "idle"
                /\ hash_table' = hash_table
                /\ ~domain_locks'[th[t].domain_index + 1].value_modifier_lock
                /\ ~domain_locks'[th[t].domain_index + 1].push_back_lock
      ]_vars

-----------------------------------------------------------------------------
(* Properties of calls made during a resize (MixedSpec) *)

\* C21: resize locks out other resizes only. While a thread holds
\* resize_lock inside rehash, a call of atomic_insert or atomic_get another
\* thread is in can take its next step, and a thread in no call can begin
\* atomic_get or run remove, on the domains that are being replaced.
C21_ResizeDoesNotBlockCalls ==
    \A a, b \in Threads :
        (a # b /\ InRehash(a) /\ resize_lock /\ Running) =>
            /\ InCall(b) => ENABLED MixedCallStep(b)
            /\ th[b].pc = "idle" =>
                  \A key \in MixedKeys :
                      ENABLED RemoveBy(b, key) /\ ENABLED AtomicGetCall(b, key)

\* the resizing thread has built the new map and holds resize_lock; the other
\* thread has meanwhile appended a key to a domain of the old array, which
\* the new map does not hold
C21_Witness ==
    \E a, b \in Threads :
        /\ th[a].pc = "move_assign" /\ resize_lock
        /\ th[b].pc = "unlock_push"
        /\ contains(hash_table, max_domains, th[b].key)
        /\ ~contains(th[a].new_hash_map.hash_table, th[a].new_hash_map.max_domains,
                     th[b].key)

-----------------------------------------------------------------------------
(* Properties of the delegated search (SearchSpec) *)

\* a delegated get has returned
DelegatedReturned == device.pc = "idle" /\ device.delegated

\* C22: when the domain holds more than 100 entries and a backend is
\* registered, the delegated search returns what the linear scan returns,
\* the index of the entry with the searched hash or not-found, and get
\* returns the value of that entry or nothing
C22_DelegatedSearchIsLinearScan ==
    /\ device.pc # "terminated"
    /\ DelegatedReturned =>
          LET key_index == linear_scan(hash_table, device.domain_index, device.hash_val)
          IN  /\ device.key_index = key_index
              /\ ret.opt = IF has_value(key_index)
                           THEN <<At(hash_table, device.domain_index,
                                     value_of(key_index)).value>>
                           ELSE nullopt

\* C23: the work unit that finds a matching hash records the index and sets
\* the shared flag; a work unit that is about to begin a batch when the flag
\* is set begins none; the recorded index is that of an entry whose hash is
\* the searched one
C23_FlagStopsUnitsAndIndexMatches ==
    [][/\ (device'.pc = "wait" /\ device'.key_index # device.key_index)
             => device'.finished
       /\ \A u \in 1..Len(device.units) :
             (device.pc = "wait" /\ device'.pc = "wait" /\ device.finished
                /\ device.units[u].pc = "check")
                => device'.units[u].pc \in {"check", "done"}
       /\ (device'.pc = "wait" /\ has_value(device'.key_index)) =>
             LET dom == Dom(hash_table', device'.domain_index)
                 i == value_of(device'.key_index)
             IN  i < Len(dom) /\ dom[i + 1].hash_value = device'.hash_val
      ]_vars

\* C24: from the launch of the work units until wait returns, no entry is
\* appended to the domain that is searched
C24_NoAppendWhileSearchOutstanding ==
    [][device.pc = "wait" =>
          Len(Dom(hash_table', device.domain_index))
              = Len(Dom(hash_table, device.domain_index))]_vars

\* the slots work unit u reads in the batch it is about to scan: the slots
\* of the batch up to the first one that holds the searched hash
ReadBy(u) ==
    LET me == device.units[u]
        dom == Dom(hash_table, device.domain_index)
        local_mm == batch_mm(me, me.batch)
        hits == {i \in InDomain(local_mm, Len(dom)) :
                    dom[i + 1].hash_value = device.hash_val}
    IN  IF hits = {} THEN local_mm.min..(local_mm.max - 1)
        ELSE local_mm.min..Min(hits)

\* C36: every slot index a work unit reads lies in the range [min, max) of
\* the unit and is smaller than the number of entries of the domain
C36_ReadsInsideRangeAndDomain ==
    \A u \in 1..Len(device.units) :
        (device.pc = "wait" /\ device.units[u].pc = "scan") =>
            \A i \in ReadBy(u) :
                /\ device.units[u].min <= i
                /\ i < device.units[u].max
                /\ i < Len(Dom(hash_table, device.domain_index))

-----------------------------------------------------------------------------
(* Properties of a key with the all-ones hash (OnesSpec) *)

\* C31: a key whose hash is the all-ones value is live from its insert to
\* its remove: get and contains find it with the value given last, also
\* after a resize and after other keys were removed; the slot its lookup
\* finds is its own; a finished loop over the map has yielded it; and it is
\* absent before its insert and after its remove
C31_AllOnesKeyLiveUntilRemoved ==
    \A k \in OnesKeys :
        /\ last_insert[k] # NoValue =>
              /\ contains(hash_table, max_domains, k)
              /\ get(hash_table, max_domains, k) = <<last_insert[k]>>
              /\ LET d == eval_domain_index(hash_fun(k), max_domains)
                     key_index == search_concurrent(hash_table, max_domains, k)
                 IN  At(hash_table, d, value_of(key_index)).key = k
              /\ it_pc = "done" =>
                    \E i \in 1..Len(yielded) :
                        /\ yielded[i].e.key = k
                        /\ yielded[i].e.value = last_insert[k]
        /\ last_insert[k] = NoValue => ~contains(hash_table, max_domains, k)

-----------------------------------------------------------------------------
(* Properties of an insert made during a resize (MixedSpec) *)

\* C34: an atomic_insert(K, v) that returned while the resize of the other
\* thread was in progress is in the map when the resize has completed:
\* get(K) returns v
C34_InsertDuringResizeKept ==
    (/\ Running
     /\ hist.op = "insert_in_resize"
     /\ th["t1"].pc = "idle" /\ th["t1"].calls = 1) =>
        get(hash_table, max_domains, hist.key) = <<"v2">>

-----------------------------------------------------------------------------
(* A finite set of guarded calls under fair scheduling *)

FairKeys == {"k1", "k2"}

\* atomic_get(key) is called, as one of the MaxCalls calls of the run
CountedGetCall(t, key) ==
    /\ th[t].pc = "idle"
    /\ SumOver(issued, Keys) < MaxCalls
    /\ th' = [th EXCEPT ![t] = CallLocals("get", key, NoValue)]
    /\ issued' = [issued EXCEPT ![key] = @ + 1]
    /\ UNCHANGED <<max_domains, hash_table, domain_locks, resize_lock>>

FairCallsNext ==
    \/ \E t \in Threads, key \in FairKeys :
          AtomicInsertCall(t, key, ThreadValue(t)) /\ UNCHANGED caller_vars
    \/ \E t \in Threads, key \in FairKeys :
          CountedGetCall(t, key) /\ UNCHANGED caller_vars
    \/ \E t \in Threads : ScanStep(t) /\ UNCHANGED caller_vars
    \/ \E t \in Threads : LockValue(t) /\ UNCHANGED caller_vars
    \/ \E t \in Threads : AssignValue(t) /\ UNCHANGED caller_vars
    \/ \E t \in Threads : BindValue(t) /\ UNCHANGED caller_vars
    \/ \E t \in Threads : UnlockValue(t) /\ UNCHANGED caller_vars
    \/ \E t \in Threads : LockPushBack(t) /\ UNCHANGED caller_vars
    \/ \E t \in Threads : PushBackRead(t) /\ UNCHANGED caller_vars
    \/ \E t \in Threads : PushBackWrite(t) /\ UNCHANGED caller_vars
    \/ \E t \in Threads : UnlockPushBack(t) /\ UNCHANGED caller_vars

\* a step of the call thread t is in, as the run takes it
FairCallStep(t) == CallStep(t) /\ UNCHANGED caller_vars

FairCallsSafeSpec == Init /\ [][FairCallsNext]_vars

\* every thread keeps running: a step of its call that stays possible is
\* taken
FairCallsSpec == FairCallsSafeSpec /\ \A t \in Threads : WF_vars(FairCallStep(t))

\* the number of locks of the map that are held
RECURSIVE LocksHeldFrom(_)
LocksHeldFrom(d) ==
    IF d > Len(domain_locks) THEN 0
    ELSE (IF domain_locks[d].value_modifier_lock THEN 1 ELSE 0)
         + (IF domain_locks[d].push_back_lock THEN 1 ELSE 0)
         + LocksHeldFrom(d + 1)

LocksHeld == LocksHeldFrom(1)

\* the threads that are between taking a lock and releasing it
Holders == {t \in Threads : InAppend(t) \/ InValueAccess(t)}

\* C35: a guarded call holds at most one lock at a time, the lock of its own
\* domain, and no lock is held that no running call holds, so all locks are
\* free when every call has returned; while a call is running some call can
\* take a step; and under fair scheduling every call returns
C35_OneLockAndCompletion ==
    /\ [](\A t \in Threads :
             /\ ~(InAppend(t) /\ InValueAccess(t))
             /\ InAppend(t) => OwnLocks(t).push_back_lock
             /\ InValueAccess(t) => OwnLocks(t).value_modifier_lock)
    /\ [](LocksHeld = Cardinality(Holders))
    /\ []((\E t \in Threads : th[t].pc # "idle")
             => \E t \in Threads : ENABLED FairCallStep(t))
    /\ \A t \in Threads : (th[t].pc # "idle") ~> (th[t].pc = "idle")

\* both threads hold a lock of the same domain, one the value lock and one
\* the append lock, in a run whose calls are all issued
C35_Witness ==
    \E a, b \in Threads :
        /\ th[a].pc = "assign" /\ th[b].pc = "push_write"
        /\ th[a].domain_index = th[b].domain_index
        /\ LocksHeld = 2
        /\ SumOver(issued, Keys) = MaxCalls

-----------------------------------------------------------------------------
(* Properties of stepping and constructing a hash (StepSpec) *)

\* the 128-bit number of h, least significant limb first: _64_bit_id[1] is
\* the low half
Limbs128(h) == h[2] \o h[1]

\* the hash of eight limbs
OfLimbs128(l) == <<SubSeq(l, 5, 8), SubSeq(l, 1, 4)>>

\* h + 1 modulo 2^128
Inc128(h) ==
    LET l == Limbs128(h)
    IN  OfLimbs128([i \in 1..8 |-> IF \A j \in 1..(i - 1) : l[j] = LimbMax
                                   THEN (l[i] + 1) % LimbBase
                                   ELSE l[i]])

\* h - 1 modulo 2^128
Dec128(h) ==
    LET l == Limbs128(h)
    IN  OfLimbs128([i \in 1..8 |-> IF \A j \in 1..(i - 1) : l[j] = 0
                                   THEN (l[i] + LimbMax) % LimbBase
                                   ELSE l[i]])

\* C38: pre-increment and pre-decrement are inverse operations modulo 2^128:
\* after ++h the object holds the old value plus one and --h would bring
\* the old value back, after --h it holds the old value minus one and ++h
\* would bring the old value back; the other half changes exactly when the
\* stepped half wraps (all-ones to zero on ++, zero to all-ones on --)
C38_IncrDecrInverse ==
    /\ hash_obj.op = "pre_incr" =>
           LET old == hash_obj.args[1]
           IN  /\ hash_obj.h = Inc128(old)
               /\ op_pre_decr(hash_obj.h) = old
               /\ op_pre_incr(op_pre_decr(old)) = old
               /\ (hash_obj.h[1] # old[1]) <=> (old[2] = U64Ones /\ hash_obj.h[2] = U64Zero)
               /\ hash_obj.h[1] # old[1] => hash_obj.h[1] = U64Inc(old[1])
    /\ hash_obj.op = "pre_decr" =>
           LET old == hash_obj.args[1]
           IN  /\ hash_obj.h = Dec128(old)
               /\ op_pre_incr(hash_obj.h) = old
               /\ op_pre_decr(op_pre_incr(old)) = old
               /\ (hash_obj.h[1] # old[1]) <=> (old[2] = U64Zero /\ hash_obj.h[2] = U64Ones)
               /\ hash_obj.h[1] # old[1] => hash_obj.h[1] = U64Dec(old[1])

\* ++ has carried out of an all-ones object: the value wrapped to zero
C38_Witness ==
    /\ hash_obj.op = "pre_incr"
    /\ hash_obj.args[1] = <<U64Ones, U64Ones>>
    /\ hash_obj.h = ZeroHash

\* C39: the two-argument constructor is order-insensitive: the object built
\* from (id_1, id_2) equals the one built from (id_2, id_1), and it holds
\* the smaller argument in _64_bit_id[0] and the larger in _64_bit_id[1]
C39_ConstructOrderInsensitive ==
    hash_obj.op = "construct" =>
        LET id_1 == hash_obj.args[1]
            id_2 == hash_obj.args[2]
        IN  /\ op_eq(hash_obj.h, hash_of_pair(id_2, id_1))
            /\ hash_obj.h = hash_of_pair(id_2, id_1)
            /\ ~U64Gt(hash_obj.h[1], hash_obj.h[2])
            /\ hash_obj.h[1] \in {id_1, id_2}
            /\ hash_obj.h[2] \in {id_1, id_2}
            /\ {hash_obj.h[1], hash_obj.h[2]} = {id_1, id_2}

\* an object was built from a larger first and a smaller second argument
C39_Witness ==
    /\ hash_obj.op = "construct"
    /\ U64Gt(hash_obj.args[1], hash_obj.args[2])
    /\ hash_obj.h = <<hash_obj.args[2], hash_obj.args[1]>>

====
